---- MODULE Spec2Model ----
(***************************************************************************)
(* SECOAP codec core (GiterLab/go-secoap): the V0, V1 and V2 frame codecs,  *)
(* the option TLV engine and the checksums, modelled at byte level.         *)
(* A Go slice is a sequence of bytes (0..255); sequences are 1-indexed, so  *)
(* Go's buf[i] is buf[i+1] here.  A nil slice and an empty slice are both   *)
(* <<>>; where the code distinguishes them a ...Nil flag carries the bit.   *)
(***************************************************************************)
EXTENDS Integers, Sequences, FiniteSets, TLC

VARIABLES msg, bufBack, bufLen, encRes, frame, target, decRes, op, u32, second,
          pool, env, ids, optc

vars == <<msg, bufBack, bufLen, encRes, frame, target, decRes, op, u32, second,
          pool, env, ids, optc>>

\* the message, buffer, frame and results of a codec call
codecVars == <<msg, bufBack, bufLen, encRes, frame, target, decRes>>

\* what a codec call leaves alone
others == <<u32, second, pool, env, ids, optc>>

\* what a call of EncodeUint32 or DecodeUint32 leaves alone
restUint32 == <<codecVars, second, pool, env, ids, optc>>

(***************************************************************************)
(* Fixed-width integer helpers                                             *)
(***************************************************************************)
\* Go's ^, & and | on unsigned values, one byte to a step
RECURSIVE BitXor(_, _)
BitXor(a, b) ==
    LET bit(x, y, k) == ((((x \div k) % 2) + ((y \div k) % 2)) % 2) * k
    IN  IF a = 0 THEN b
        ELSE IF b = 0 THEN a
        ELSE (256 * BitXor(a \div 256, b \div 256))
             + (((bit(a, b, 1) + bit(a, b, 2)) + (bit(a, b, 4) + bit(a, b, 8)))
                + ((bit(a, b, 16) + bit(a, b, 32)) + (bit(a, b, 64) + bit(a, b, 128))))

RECURSIVE BitAnd(_, _)
BitAnd(a, b) ==
    LET bit(x, y, k) == (((x \div k) % 2) * ((y \div k) % 2)) * k
    IN  IF a = 0 \/ b = 0 THEN 0
        ELSE (256 * BitAnd(a \div 256, b \div 256))
             + (((bit(a, b, 1) + bit(a, b, 2)) + (bit(a, b, 4) + bit(a, b, 8)))
                + ((bit(a, b, 16) + bit(a, b, 32)) + (bit(a, b, 64) + bit(a, b, 128))))

RECURSIVE BitOr(_, _)
BitOr(a, b) ==
    LET bit(x, y, k) ==
            (IF ((x \div k) % 2) = 1 \/ ((y \div k) % 2) = 1 THEN 1 ELSE 0) * k
    IN  IF a = 0 THEN b
        ELSE IF b = 0 THEN a
        ELSE (256 * BitOr(a \div 256, b \div 256))
             + (((bit(a, b, 1) + bit(a, b, 2)) + (bit(a, b, 4) + bit(a, b, 8)))
                + ((bit(a, b, 16) + bit(a, b, 32)) + (bit(a, b, 64) + bit(a, b, 128))))

\* byte(x): conversion of any Go integer to uint8
ToByte(x) == x % 256

\* uint16(x)
ToUint16(x) == x % 65536

\* binary.BigEndian.PutUint16
PutUint16BE(v) == <<(v \div 256), (v % 256)>>

\* PutUint16LE with the two bytes in big-endian order
PutUint16LESwapped(v) == <<(v \div 256), (v % 256)>>

\* binary.LittleEndian.PutUint16
PutUint16LE(v) == <<(v % 256), (v \div 256)>>

\* binary.BigEndian.Uint16(b[0:2])
Uint16BE(b) == (b[1] * 256) + b[2]

\* binary.LittleEndian.Uint16(b[0:2])
Uint16LE(b) == (b[2] * 256) + b[1]

\* Go's s[from:] on a sequence (from is 0-based)
Drop(s, from) == SubSeq(s, from + 1, Len(s))

\* Go's s[:to]
Take(s, to) == SubSeq(s, 1, to)

\* copy(dst[at:], src) where the bytes fit: dst with src written at 0-based offset at
WriteAt(dst, at, src) ==
    [i \in 1..Len(dst) |->
        IF i > at /\ i <= at + Len(src) THEN src[i - at] ELSE dst[i]]

(***************************************************************************)
(* Checksums                                                               *)
(***************************************************************************)
\* the loop of rsum8 over data[lo..hi], starting from the running value sum:
\* sum += ~(*pdata), in uint8 arithmetic, the bytes in their order.  A range
\* of several bytes is summed as its two halves, the second half starting
\* from the value the first half has left.
RECURSIVE rsum8(_, _, _, _)
rsum8(sum, data, lo, hi) ==
    IF lo < hi
    THEN CHOOSE s \in {rsum8(half, data, ((lo + hi) \div 2) + 1, hi) :
                          half \in {rsum8(sum, data, lo, (lo + hi) \div 2)}} : TRUE
    ELSE IF lo > hi THEN sum
    ELSE (sum + (255 - data[lo])) % 256

\* the loop of rsum8 over the first n bytes
Rsum8Loop(data, n) == rsum8(0, data, 1, n)

\* RSUM8(data)
RSUM8(data) == Rsum8Loop(data, Len(data))

\* one bit step of the reflected CRC16 (polynomial 0xA001)
Crc16Shift ==
    [crc \in 0..65535 |-> IF (crc % 2) = 1 THEN BitXor(crc \div 2, 40961) ELSE crc \div 2]

\* crc16.MakeTable(crc16.CRC16_MODBUS): eight bit steps of every byte value
Crc16Table ==
    [b \in 0..255 |->
        Crc16Shift[Crc16Shift[Crc16Shift[Crc16Shift[
        Crc16Shift[Crc16Shift[Crc16Shift[Crc16Shift[b]]]]]]]]]

\* h.Write of the crc16 digest over data[lo..hi], starting from the running
\* value crc: per byte crc = table[byte(crc) ^ b] ^ (crc >> 8), the bytes in
\* their order.  A range of several bytes is written as its two halves, the
\* second half starting from the value the first half has left.
RECURSIVE crc16Write(_, _, _, _)
crc16Write(crc, data, lo, hi) ==
    IF lo < hi
    THEN CHOOSE sum \in {crc16Write(half, data, ((lo + hi) \div 2) + 1, hi) :
                            half \in {crc16Write(crc, data, lo, (lo + hi) \div 2)}} : TRUE
    ELSE IF lo > hi THEN crc
    ELSE BitXor(Crc16Table[BitXor(crc % 256, data[lo])], crc \div 256)

\* CRC16-MODBUS over the first i bytes: init 0xFFFF, reflected in and out,
\* no final xor
crc16BytesModbus(data, i) == crc16Write(65535, data, 1, i)

\* CRC16Bytes with the last byte left out of the checksum
CRC16BytesSkipLast(data) == crc16BytesModbus(data, IF Len(data) > 0 THEN Len(data) - 1 ELSE 0)

CRC16Bytes(data) == crc16BytesModbus(data, Len(data))

(***************************************************************************)
(* Option model                                                            *)
(***************************************************************************)
IfMatch == 1
URIHost == 3
ETag == 4
IfNoneMatch == 5
Observe == 6
URIPort == 7
LocationPath == 8
URIPath == 11
ContentFormat == 12
MaxAge == 14
URIQuery == 15
Accept == 17
LocationQuery == 20
Block2 == 23
Block1 == 27
Size2 == 28
ProxyURI == 35
ProxyScheme == 39
Size1 == 60
NoResponse == 258
GiterLabID == 65000
GiterLabKey == 65001
AccessID == 65002
AccessKey == 65003
CheckCRC32 == 65004
EncoderTypeOpt == 65005
EncoderIDOpt == 65006
PackageNumber == 65100

OptionDef(fmt, min, max) == [ValueFormat |-> fmt, MinLen |-> min, MaxLen |-> max]

StringOptionIDs ==
    {URIHost, LocationPath, URIPath, URIQuery, LocationQuery, ProxyURI, ProxyScheme,
     GiterLabID, GiterLabKey, AccessID, AccessKey}

UintOptionIDs ==
    {Observe, URIPort, ContentFormat, MaxAge, Accept, Block2, Block1, Size2, Size1,
     CheckCRC32, EncoderTypeOpt, EncoderIDOpt, PackageNumber}

RegisteredIDs == StringOptionIDs \cup UintOptionIDs \cup {IfMatch, ETag, IfNoneMatch}

\* the registry; an ID that is not a key reads as the zero OptionDef, as a Go map does
CoapOptionDefs(id) ==
    CASE id = IfMatch -> OptionDef("ValueOpaque", 0, 8)
      [] id = URIHost -> OptionDef("ValueString", 1, 255)
      [] id = ETag -> OptionDef("ValueOpaque", 1, 8)
      [] id = IfNoneMatch -> OptionDef("ValueEmpty", 0, 0)
      [] id = Observe -> OptionDef("ValueUint", 0, 3)
      [] id = URIPort -> OptionDef("ValueUint", 0, 2)
      [] id = LocationPath -> OptionDef("ValueString", 0, 255)
      [] id = URIPath -> OptionDef("ValueString", 0, 255)
      [] id = ContentFormat -> OptionDef("ValueUint", 0, 2)
      [] id = MaxAge -> OptionDef("ValueUint", 0, 4)
      [] id = URIQuery -> OptionDef("ValueString", 0, 255)
      [] id = Accept -> OptionDef("ValueUint", 0, 2)
      [] id = LocationQuery -> OptionDef("ValueString", 0, 255)
      [] id = Block2 -> OptionDef("ValueUint", 0, 3)
      [] id = Block1 -> OptionDef("ValueUint", 0, 3)
      [] id = Size2 -> OptionDef("ValueUint", 0, 4)
      [] id = ProxyURI -> OptionDef("ValueString", 1, 1034)
      [] id = ProxyScheme -> OptionDef("ValueString", 1, 255)
      [] id = Size1 -> OptionDef("ValueUint", 0, 4)
      [] id \in {GiterLabID, GiterLabKey, AccessID, AccessKey} -> OptionDef("ValueString", 0, 255)
      [] id \in {CheckCRC32, EncoderTypeOpt, EncoderIDOpt} -> OptionDef("ValueUint", 0, 4)
      [] id = PackageNumber -> OptionDef("ValueUint", 0, 2)
      [] OTHER -> OptionDef("ValueUnknown", 0, 0)

VerifyOptLen(optionID, valueLen) ==
    LET within(def) == ~(valueLen < def.MinLen \/ valueLen > def.MaxLen)
    IN  within(CoapOptionDefs(optionID))

\* Option.Value is an interface{}: a tagged value.  k is the dynamic type,
\* b the bytes of a string or []byte, n the number of an integer type.
StrValue(b) == [k |-> "string", b |-> b, n |-> 0]
BytesValue(b) == [k |-> "bytes", b |-> b, n |-> 0]
UintValue(n) == [k |-> "uint32", b |-> <<>>, n |-> n]
MediaValue(n) == [k |-> "MediaType", b |-> <<>>, n |-> n]
NilValue == [k |-> "nil", b |-> <<>>, n |-> 0]

Option(id, value) == [ID |-> id, Value |-> value]

encodeInt(v) ==
    IF v = 0 THEN <<>>
    ELSE IF v < 256 THEN <<v>>
    ELSE IF v < 65536 THEN PutUint16BE(v)
    ELSE IF v < 16777216 THEN <<(v \div 65536), ((v \div 256) % 256), (v % 256)>>
    ELSE <<(v \div 16777216), ((v \div 65536) % 256), ((v \div 256) % 256), (v % 256)>>

\* left-pads b to four bytes and reads it big-endian (len(b) <= 4)
RECURSIVE decodeInt(_)
decodeInt(b) ==
    IF b = <<>> THEN 0
    ELSE (decodeInt(Take(b, Len(b) - 1)) * 256) + b[Len(b)]

ExtendOptionByteCode == 13
ExtendOptionByteAddend == 13
ExtendOptionWordCode == 14
ExtendOptionWordAddend == 269
ExtendOptionError == 15

\* extendOpt with the word extension starting one value late
extendOptLateWord(opt) ==
    IF opt >= ExtendOptionByteAddend
    THEN IF opt > ExtendOptionWordAddend
         THEN <<ExtendOptionWordCode, opt - ExtendOptionWordAddend>>
         ELSE <<ExtendOptionByteCode, opt - ExtendOptionByteAddend>>
    ELSE <<opt, 0>>

\* returns <<opt, ext>>
extendOpt(opt) ==
    IF opt >= ExtendOptionByteAddend
    THEN IF opt >= ExtendOptionWordAddend
         THEN <<ExtendOptionWordCode, opt - ExtendOptionWordAddend>>
         ELSE <<ExtendOptionByteCode, opt - ExtendOptionByteAddend>>
    ELSE <<opt, 0>>

parseExtOpt(data, opt) ==
    IF opt = ExtendOptionByteCode
    THEN IF Len(data) < 1
         THEN [processed |-> 0, opt |-> -1, err |-> "ErrOptionTruncated"]
         ELSE [processed |-> 1, opt |-> data[1] + ExtendOptionByteAddend, err |-> "nil"]
    ELSE IF opt = ExtendOptionWordCode
    THEN IF Len(data) < 2
         THEN [processed |-> 0, opt |-> -1, err |-> "ErrOptionTruncated"]
         ELSE [processed |-> 2, opt |-> Uint16BE(data) + ExtendOptionWordAddend, err |-> "nil"]
    ELSE [processed |-> 0, opt |-> opt, err |-> "nil"]

\* every marshal step returns [n, err, buf]: the count, the error and the
\* buffer as the call leaves it
marshalOptionHeaderExt(buf, opt, ext) ==
    IF opt = ExtendOptionByteCode
    THEN IF Len(buf) > 0
         THEN [n |-> 1, err |-> "nil", buf |-> WriteAt(buf, 0, <<ToByte(ext)>>)]
         ELSE [n |-> 1, err |-> "ErrTooSmall", buf |-> buf]
    ELSE IF opt = ExtendOptionWordCode
    THEN IF Len(buf) > 1
         THEN [n |-> 2, err |-> "nil", buf |-> WriteAt(buf, 0, PutUint16BE(ToUint16(ext)))]
         ELSE [n |-> 2, err |-> "ErrTooSmall", buf |-> buf]
    ELSE [n |-> 0, err |-> "nil", buf |-> buf]

marshalOptionHeader(buf, delta, length) ==
    LET \* after the length extension r2 was written behind size1 bytes of b1
        lengthExt(b1, size1, nil1, r2) ==
            [n |-> size1 + r2.n,
             err |-> IF nil1 \/ r2.err = "ErrTooSmall" THEN "ErrTooSmall" ELSE "nil",
             buf |-> IF nil1 THEN b1 ELSE Take(b1, size1) \o r2.buf]
        afterDelta(b1, size1, nil1, l) ==
            lengthExt(b1, size1, nil1,
                      marshalOptionHeaderExt(IF nil1 THEN <<>> ELSE Drop(b1, size1), l[1], l[2]))
        \* after the delta extension r1 was written behind the first byte of b0
        deltaExt(b0, nil0, l, r1) ==
            afterDelta(IF nil0 THEN b0 ELSE Take(b0, 1) \o r1.buf,
                       1 + r1.n, nil0 \/ r1.err = "ErrTooSmall", l)
        afterFirst(b0, nil0, d, l) ==
            deltaExt(b0, nil0, l,
                     marshalOptionHeaderExt(IF nil0 THEN <<>> ELSE Drop(b0, 1), d[1], d[2]))
        first(d, l) ==
            afterFirst(IF Len(buf) > 0
                       THEN WriteAt(buf, 0, <<BitOr(ToByte(d[1] * 16), ToByte(l[1]))>>)
                       ELSE buf,
                       ~(Len(buf) > 0), d, l)
    IN  first(extendOpt(delta), extendOpt(length))

\* Option.ToBytes; a value of any other dynamic type panics.  The numbers of
\* the model are below 2^31, where the uint32() conversion changes nothing.
ToBytesPanics(o) == o.Value.k \notin {"string", "bytes", "MediaType", "int", "int32", "uint", "uint32"}

ToBytes(o) ==
    IF o.Value.k \in {"string", "bytes"} THEN o.Value.b
    ELSE encodeInt(o.Value.n)

\* MarshalValue refusing a buffer that the value fills exactly
MarshalValueStrict(o, buf) ==
    LET put(value) ==
            IF Len(buf) <= Len(value)
            THEN [n |-> Len(value), err |-> "ErrTooSmall", buf |-> buf]
            ELSE [n |-> Len(value), err |-> "nil", buf |-> WriteAt(buf, 0, value)]
    IN  put(ToBytes(o))

MarshalValue(o, buf) ==
    LET put(value) ==
            IF Len(buf) < Len(value)
            THEN [n |-> Len(value), err |-> "ErrTooSmall", buf |-> buf]
            ELSE [n |-> Len(value), err |-> "nil", buf |-> WriteAt(buf, 0, value)]
    IN  put(ToBytes(o))

\* Option.Marshal(buf, previousID)
OptionMarshal(o, buf, previousID) ==
    LET \* v: the value as written behind the header h
        value(h, v) ==
            [n |-> h.n + v.n,
             err |-> IF h.err = "ErrTooSmall" \/ v.err = "ErrTooSmall"
                     THEN "ErrTooSmall" ELSE "nil",
             buf |-> IF h.err = "ErrTooSmall" THEN h.buf ELSE Take(h.buf, h.n) \o v.buf]
        header(h) ==
            value(h, MarshalValue(o, IF h.err = "ErrTooSmall" THEN <<>> ELSE Drop(h.buf, h.n)))
    IN  header(marshalOptionHeader(buf, o.ID - previousID, MarshalValue(o, <<>>).n))

\* Option.UnmarshalValue on an option whose ID is already set
UnmarshalValue(o, buf) ==
    LET set(def) ==
            IF ~VerifyOptLen(o.ID, Len(buf))
            THEN [proc |-> -1, err |-> "invalid option length", o |-> o]
            ELSE [proc |-> Len(buf), err |-> "nil",
                  o |-> CASE def.ValueFormat = "ValueUint" ->
                                \* the MediaType written for ContentFormat/Accept is
                                \* overwritten by the next statement
                                [o EXCEPT !.Value = UintValue(decodeInt(buf))]
                          [] def.ValueFormat = "ValueString" ->
                                [o EXCEPT !.Value = StrValue(buf)]
                          [] def.ValueFormat \in {"ValueOpaque", "ValueEmpty"} ->
                                [o EXCEPT !.Value = BytesValue(buf)]
                          [] OTHER -> o]
    IN  IF o.ID \in RegisteredIDs
        THEN set(CoapOptionDefs(o.ID))
        ELSE [proc |-> -1, err |-> "unrecognized option", o |-> o]

\* Option.Unmarshal(optionDefs, optionID, data) on a zero Option
OptionUnmarshal(optionID, data) ==
    LET value(r) ==
            IF r.err # "nil"
            THEN [proc |-> -1, err |-> r.err, o |-> r.o]
            ELSE [proc |-> r.proc, err |-> "nil", o |-> r.o]
    IN  IF optionID \in RegisteredIDs
        THEN IF CoapOptionDefs(optionID).ValueFormat = "ValueUnknown"
             THEN [proc |-> Len(data), err |-> "nil", o |-> Option(0, NilValue)]
             ELSE IF ~VerifyOptLen(optionID, Len(data))
             THEN [proc |-> Len(data), err |-> "nil", o |-> Option(0, NilValue)]
             ELSE value(UnmarshalValue(Option(optionID, NilValue), data))
        ELSE [proc |-> -1, err |-> "unrecognized option", o |-> Option(0, NilValue)]

\* parseOptionValue of the legacy decoder: NilValue means the option is skipped
parseOptionValue(optionID, valueBuf) ==
    LET parse(def) ==
            IF def.ValueFormat = "ValueUnknown" THEN NilValue
            ELSE IF Len(valueBuf) < def.MinLen \/ Len(valueBuf) > def.MaxLen THEN NilValue
            ELSE CASE def.ValueFormat = "ValueUint" ->
                         IF optionID = ContentFormat \/ optionID = Accept
                         THEN MediaValue(decodeInt(valueBuf))
                         ELSE UintValue(decodeInt(valueBuf))
                   [] def.ValueFormat = "ValueString" -> StrValue(valueBuf)
                   [] def.ValueFormat \in {"ValueOpaque", "ValueEmpty"} -> BytesValue(valueBuf)
                   [] OTHER -> NilValue
    IN  parse(CoapOptionDefs(optionID))

(***************************************************************************)
(* Option list codec                                                       *)
(***************************************************************************)
\* sort.Stable by ID: o is inserted after every element whose ID is <= o.ID
RECURSIVE InsertStable(_, _)
InsertStable(sorted, o) ==
    IF sorted = <<>> THEN <<o>>
    ELSE IF sorted[Len(sorted)].ID <= o.ID THEN Append(sorted, o)
    ELSE Append(InsertStable(Take(sorted, Len(sorted) - 1), o), sorted[Len(sorted)])

RECURSIVE SortStable(_)
SortStable(opts) ==
    IF opts = <<>> THEN <<>>
    ELSE InsertStable(SortStable(Take(opts, Len(opts) - 1)), opts[Len(opts)])

\* the loop of Options.Marshal over the first i options; st = [n, nil, buf, prev]
RECURSIVE OptionsMarshalLoop(_, _, _, _)
OptionsMarshalLoop(opts, i, buf, bufNil) ==
    LET \* r: option i as marshalled behind the st.n bytes already written
        one(st, nil0, r) ==
            [n |-> st.n + r.n,
             nil |-> nil0 \/ r.err = "ErrTooSmall",
             buf |-> IF nil0 THEN st.buf ELSE Take(st.buf, st.n) \o r.buf,
             prev |-> opts[i].ID]
        next(st, nil0) ==
            one(st, nil0,
                OptionMarshal(opts[i], IF nil0 THEN <<>> ELSE Drop(st.buf, st.n), st.prev))
        step(st) == next(st, st.nil \/ st.n > Len(st.buf))
    IN  IF i = 0 THEN [n |-> 0, nil |-> bufNil, buf |-> buf, prev |-> 0]
        ELSE step(OptionsMarshalLoop(opts, i - 1, buf, bufNil))

\* Options.Marshal(buf): the options in stable ID order, delta encoded; a nil
\* buffer (bufNil) or one that is too short yields the length and ErrTooSmall
OptionsMarshal(opts, buf, bufNil) ==
    LET result(st) ==
            [n |-> st.n, err |-> IF st.nil THEN "ErrTooSmall" ELSE "nil", buf |-> st.buf]
        marshal(sorted) == result(OptionsMarshalLoop(sorted, Len(sorted), buf, bufNil))
    IN  marshal(SortStable(opts))

\* Options.Unmarshal(data, optionDefs) appending to opts, whose capacity is cap.
\* Returns [proc, err, opts].
RECURSIVE OptionsUnmarshalLoop(_, _, _, _, _)
OptionsUnmarshalLoop(data, processed, prev, opts, cap) ==
    LET fail(err) == [proc |-> -1, err |-> err, opts |-> opts]
        \* r: the option decoded from the pl.opt bytes at the head of d3
        value(pd, pl, d3, r) ==
            IF r.err # "nil" THEN fail(r.err)
            ELSE IF cap = Len(opts) THEN fail("ErrOptionsTooSmall")
            ELSE OptionsUnmarshalLoop(
                     Drop(d3, pl.opt),
                     processed + 1 + pd.processed + pl.processed + pl.opt,
                     prev + pd.opt,
                     IF r.o.Value.k # "nil" THEN Append(opts, r.o) ELSE opts,
                     cap)
        body(pd, pl, d3) ==
            IF Len(d3) < pl.opt THEN fail("ErrOptionTruncated")
            ELSE value(pd, pl, d3, OptionUnmarshal(prev + pd.opt, Take(d3, pl.opt)))
        length(pd, d2, pl) ==
            IF pl.err # "nil" THEN fail(pl.err)
            ELSE body(pd, pl, Drop(d2, pl.processed))
        afterDelta(pd, d2) == length(pd, d2, parseExtOpt(d2, data[1] % 16))
        delta(pd) ==
            IF pd.err # "nil" THEN fail(pd.err)
            ELSE afterDelta(pd, Drop(data, 1 + pd.processed))
    IN  IF Len(data) = 0 THEN [proc |-> processed, err |-> "nil", opts |-> opts]
        ELSE IF data[1] = 255 THEN [proc |-> processed + 1, err |-> "nil", opts |-> opts]
        ELSE IF data[1] \div 16 = ExtendOptionError \/ data[1] % 16 = ExtendOptionError
        THEN fail("ErrOptionUnexpectedExtendMarker")
        ELSE delta(parseExtOpt(Drop(data, 1), data[1] \div 16))

OptionsUnmarshal(data, opts, cap) == OptionsUnmarshalLoop(data, 0, 0, opts, cap)

(***************************************************************************)
(* Message model and validators                                            *)
(***************************************************************************)
MaxTokenSize == 8

Confirmable == 0
NonConfirmable == 1
Acknowledgement == 2
Reset == 3
Unset == -1

ValidateVer(typ) == typ >= 0 /\ typ <= 3
ValidateMID(mid) == mid >= 0 /\ mid <= 65535
ValidateType(typ) == typ >= 0 /\ typ <= 255
ValidateEID(eid) == eid >= 0 /\ eid <= 15
ValidateETP(etp) == etp >= 0 /\ etp <= 15

\* the options capacity NewMessage allocates
OptsCap == 16

\* secoapcore.Message as NewMessage leaves it
NewMessage ==
    [Ver |-> 0, Token |-> <<>>, TokenNil |-> TRUE, Opts |-> <<>>, OptsCap |-> OptsCap,
     Code |-> 0, Payload |-> <<>>, PayloadNil |-> TRUE,
     MessageID |-> -1, Type |-> Unset, EncoderID |-> 0, EncoderType |-> 0,
     Crc16 |-> 0, Rsum8 |-> 0]

(***************************************************************************)
(* Codecs.  Encode(m, buf) gets the backing array (back) of buf and len(buf)*)
(* (blen <= Len(back) = cap(buf)) and returns [n, err, back]; Decode(data,  *)
(* m) returns [n, err, m] with m the target message as the call leaves it.  *)
(***************************************************************************)
\* the token length check of Size, off by one
TokenTooLongByTwo(m) == Len(m.Token) > MaxTokenSize + 1

\* the token length check that opens Size
TokenTooLong(m) == Len(m.Token) > MaxTokenSize

\* payloadLen of Size with the separator counted for an empty payload too
PayloadLenAlways(m) == Len(m.Payload) + 1

\* payloadLen of Size: the payload and, when there is one, its 0xFF separator
PayloadLen(m) == IF Len(m.Payload) > 0 THEN Len(m.Payload) + 1 ELSE Len(m.Payload)

\* the version check with only the lower of the two version bits compared
VersionLowBit(b) == (b \div 64) % 2

\* data[0] >> 6: the version bits of the first byte of a frame
Version(b) == b \div 64

\* coderv1.Coder.Size
V1Size(m) ==
    LET size(po) ==
            IF po.err # "ErrTooSmall" THEN [n |-> -1, err |-> po.err]
            ELSE [n |-> 4 + Len(m.Token) + PayloadLen(m) + po.n, err |-> "nil"]
    IN  IF TokenTooLong(m) THEN [n |-> -1, err |-> "ErrInvalidTokenLen"]
        ELSE size(OptionsMarshal(m.Opts, <<>>, TRUE))

\* token, options, separator and payload as the encoders write them into
\* the slice buf[hdr:blen]; returns [err, back, end] with end the offset
\* after the last byte written
WriteBody(m, back, blen, hdr) ==
    LET payload(b2, at2) ==
            IF Len(m.Payload) > 0
            THEN [err |-> "nil",
                  back |-> WriteAt(WriteAt(b2, at2, <<255>>), at2 + 1, m.Payload),
                  end |-> at2 + 1]
            ELSE [err |-> "nil", back |-> b2, end |-> at2]
        written(b2, at2, err) ==
            IF err # "nil" THEN [err |-> err, back |-> b2, end |-> at2]
            ELSE payload(b2, at2)
        options(b1, at1, r) ==
            written(Take(b1, at1) \o r.buf \o Drop(b1, blen), at1 + r.n, r.err)
        token(b1, at1) ==
            options(b1, at1, OptionsMarshal(m.Opts, SubSeq(b1, at1 + 1, blen), FALSE))
    IN  token(WriteAt(back, hdr, m.Token), hdr + Len(m.Token))

\* the V1 header with the type in bits 2..3 of the first byte, where the V2
\* header has it
V1HeaderTypeLow(m) ==
    <<BitOr(BitOr(64, ToByte(ToByte(m.Type) * 4)), ToByte(BitAnd(15, Len(m.Token)))),
      ToByte(m.Code)>>
    \o PutUint16BE(ToUint16(m.MessageID))

\* the four header bytes of a V1 frame
V1Header(m) ==
    <<BitOr(BitOr(64, ToByte(ToByte(m.Type) * 16)), ToByte(BitAnd(15, Len(m.Token)))),
      ToByte(m.Code)>>
    \o PutUint16BE(ToUint16(m.MessageID))

\* coderv1.Coder.Encode
V1Encode(m, back, blen) ==
    LET body(sz, w) ==
            IF w.err = "ErrTooSmall" THEN [n |-> sz.n, err |-> w.err, back |-> w.back]
            ELSE IF w.err # "nil" THEN [n |-> -1, err |-> w.err, back |-> w.back]
            ELSE [n |-> sz.n, err |-> "nil", back |-> w.back]
        sized(sz) ==
            IF sz.err # "nil" THEN [n |-> -1, err |-> sz.err, back |-> back]
            ELSE IF blen < sz.n THEN [n |-> sz.n, err |-> "ErrTooSmall", back |-> back]
            ELSE body(sz, WriteBody(m, WriteAt(back, 0, V1Header(m)), blen, 4))
    IN  IF ~ValidateMID(m.MessageID)
        THEN [n |-> -1, err |-> "invalid MessageID", back |-> back]
        ELSE IF ~ValidateType(m.Type) THEN [n |-> -1, err |-> "invalid Type", back |-> back]
        ELSE sized(V1Size(m))

\* token, options and payload of a V1/V2 frame after its header
DecodeBody(data, tokenLen, m) ==
    LET options(token, d1, r) ==
            IF r.err # "nil" THEN [err |-> r.err, m |-> [m EXCEPT !.Opts = r.opts]]
            ELSE [err |-> "nil",
                  m |-> [m EXCEPT !.Opts = r.opts,
                                  !.Token = token, !.TokenNil = (Len(token) = 0),
                                  !.Payload = Drop(d1, r.proc),
                                  !.PayloadNil = (Len(d1) = r.proc)]]
        token(d1) ==
            options(Take(data, tokenLen), d1, OptionsUnmarshal(d1, m.Opts, m.OptsCap))
    IN  IF Len(data) < tokenLen THEN [err |-> "ErrMessageTruncated", m |-> m]
        ELSE token(Drop(data, tokenLen))

\* coderv1.Coder.Decode
V1Decode(data, m) ==
    LET body(b) ==
            IF b.err # "nil" THEN [n |-> -1, err |-> b.err, m |-> b.m]
            ELSE [n |-> Len(data), err |-> "nil",
                  m |-> [b.m EXCEPT !.Ver = 1, !.Code = data[2],
                                    !.MessageID = Uint16BE(SubSeq(data, 3, 4)),
                                    !.Type = (data[1] \div 16) % 4]]
    IN  IF Len(data) < 4 THEN [n |-> -1, err |-> "ErrMessageTruncated", m |-> m]
        ELSE IF Version(data[1]) # 1 THEN [n |-> -1, err |-> "ErrMessageInvalidVersion", m |-> m]
        ELSE IF data[1] % 16 > 8 THEN [n |-> -1, err |-> "ErrInvalidTokenLen", m |-> m]
        ELSE body(DecodeBody(Drop(data, 4), data[1] % 16, m))

\* coderv0.Coder.Size
V0Size(m) == [n |-> 4 + Len(m.Payload), err |-> "nil"]

\* the four header bytes of a V0 frame
V0Header(m) ==
    <<ToByte(m.Type), BitOr(ToByte(m.EncoderID * 16), ToByte(m.EncoderType))>>
    \o PutUint16LE(CRC16Bytes(m.Payload))

\* coderv0.Coder.Encode
V0Encode(m, back, blen) ==
    IF ~ValidateType(m.Type) THEN [n |-> -1, err |-> "invalid Type", back |-> back]
    ELSE IF ~ValidateEID(m.EncoderID) THEN [n |-> -1, err |-> "invalid EncoderID", back |-> back]
    ELSE IF ~ValidateETP(m.EncoderType) THEN [n |-> -1, err |-> "invalid EncoderType", back |-> back]
    ELSE IF blen < V0Size(m).n THEN [n |-> V0Size(m).n, err |-> "ErrTooSmall", back |-> back]
    ELSE [n |-> V0Size(m).n, err |-> "nil",
          back |-> WriteAt(WriteAt(back, 0, V0Header(m)), 4, m.Payload)]

\* coderv0.Coder.Decode: the fields are stored before the CRC16 is compared
V0Decode(data, m) ==
    LET check(m1) ==
            IF m1.Crc16 # CRC16Bytes(m1.Payload)
            THEN [n |-> -1, err |-> "ErrInvalidRCRC16", m |-> m1]
            ELSE [n |-> Len(data), err |-> "nil", m |-> m1]
    IN  IF Len(data) < 4 THEN [n |-> -1, err |-> "ErrMessageTruncated", m |-> m]
        ELSE IF Version(data[1]) # 0 THEN [n |-> -1, err |-> "ErrMessageInvalidVersion", m |-> m]
        ELSE check([m EXCEPT !.Ver = 0, !.Payload = Drop(data, 4), !.PayloadNil = FALSE,
                             !.Type = data[1] % 4,
                             !.EncoderID = data[2] \div 16, !.EncoderType = data[2] % 16,
                             !.Crc16 = Uint16LE(SubSeq(data, 3, 4))])

\* coderv2.Coder.Size
V2Size(m) ==
    LET size(po) ==
            IF po.err # "ErrTooSmall" THEN [n |-> -1, err |-> po.err]
            ELSE [n |-> 8 + Len(m.Token) + PayloadLen(m) + po.n, err |-> "nil"]
    IN  IF TokenTooLong(m) THEN [n |-> -1, err |-> "ErrInvalidTokenLen"]
        ELSE size(OptionsMarshal(m.Opts, <<>>, TRUE))

\* the eight header bytes of a V2 frame, RSUM8 still zero
V2Header(m) ==
    <<BitOr(BitOr(128, ToByte(ToByte(BitAnd(15, Len(m.Token))) * 4)), ToByte(m.Type)),
      BitOr(ToByte(m.EncoderID * 16), ToByte(m.EncoderType))>>
    \o PutUint16BE(CRC16Bytes(m.Payload))
    \o PutUint16BE(ToUint16(m.MessageID))
    \o <<ToByte(m.Code), 0>>

\* the field checks that open coderv2.Coder.Encode; "nil" when all pass
V2Validate(m) ==
    IF ~ValidateMID(m.MessageID) THEN "invalid MessageID"
    ELSE IF ~ValidateType(m.Type) THEN "invalid Type"
    ELSE IF ~ValidateEID(m.EncoderID) THEN "invalid EncoderID"
    ELSE IF ~ValidateETP(m.EncoderType) THEN "invalid EncoderType"
    ELSE "nil"

\* the statement that closes the Encode of coder/coderv2/coder.go,
\* buf[7] = RSUM8(buf[:size]): buf was resliced while the frame was written
\* and starts at offset p0, where the payload begins.  Out of range there is
\* a run-time panic.
V2CloseResliced(back, blen, p0, size) ==
    IF size > Len(back) - p0 \/ 7 >= blen - p0
    THEN [n |-> -1, err |-> "panic", back |-> back]
    ELSE [n |-> size, err |-> "nil",
          back |-> WriteAt(back, p0 + 7, <<RSUM8(SubSeq(back, p0 + 1, p0 + size))>>)]

\* the same statement in the second copy of the file, where the frame was
\* written through pbuf and buf still starts at the frame
V2ClosePbuf(back, blen, p0, size) ==
    [n |-> size, err |-> "nil", back |-> WriteAt(back, 7, <<RSUM8(Take(back, size))>>)]

\* coderv2.Coder.Encode up to its closing statement; resliced tells the copy
V2EncodeWith(m, back, blen, resliced) ==
    LET body(sz, w) ==
            IF w.err = "ErrTooSmall" THEN [n |-> sz.n, err |-> w.err, back |-> w.back]
            ELSE IF w.err # "nil" THEN [n |-> -1, err |-> w.err, back |-> w.back]
            ELSE IF resliced THEN V2CloseResliced(w.back, blen, w.end, sz.n)
            ELSE V2ClosePbuf(w.back, blen, w.end, sz.n)
        sized(sz) ==
            IF sz.err # "nil" THEN [n |-> -1, err |-> sz.err, back |-> back]
            ELSE IF blen < sz.n THEN [n |-> sz.n, err |-> "ErrTooSmall", back |-> back]
            ELSE body(sz, WriteBody(m, WriteAt(back, 0, V2Header(m)), blen, 8))
    IN  IF V2Validate(m) # "nil" THEN [n |-> -1, err |-> V2Validate(m), back |-> back]
        ELSE sized(V2Size(m))

\* coderv2.Coder.Encode of coder/coderv2/coder.go
V2Encode(m, back, blen) == V2EncodeWith(m, back, blen, TRUE)

\* coderv2.Coder.Encode of the second copy of the file
V2EncodePbuf(m, back, blen) == V2EncodeWith(m, back, blen, FALSE)

\* the RSUM8 check of Decode taken over the eight header bytes only
Rsum8InvalidHeader(data) == RSUM8(Take(data, 8)) # 0

\* the RSUM8 check of coderv2.Coder.Decode
Rsum8Invalid(data) == RSUM8(data) # 0

\* coderv2.Coder.Decode; setVer is the m.Ver = Version2 assignment that only
\* the second copy of the file has
V2DecodeVer(data, m, setVer) ==
    LET check(m1) ==
            IF m1.Crc16 # CRC16Bytes(m1.Payload)
            THEN [n |-> -1, err |-> "ErrInvalidRCRC16", m |-> m1]
            ELSE [n |-> Len(data), err |-> "nil", m |-> m1]
        body(b) ==
            IF b.err # "nil" THEN [n |-> -1, err |-> b.err, m |-> b.m]
            ELSE check([b.m EXCEPT !.Ver = IF setVer THEN 2 ELSE @,
                                   !.Code = data[7],
                                   !.MessageID = Uint16BE(SubSeq(data, 5, 6)),
                                   !.Type = data[1] % 4,
                                   !.EncoderID = data[2] \div 16,
                                   !.EncoderType = data[2] % 16,
                                   !.Crc16 = Uint16BE(SubSeq(data, 3, 4))])
    IN  IF Len(data) < 8 THEN [n |-> -1, err |-> "ErrMessageTruncated", m |-> m]
        ELSE IF Rsum8Invalid(data) THEN [n |-> -1, err |-> "ErrMessageInvalidRSUM8", m |-> m]
        ELSE IF Version(data[1]) # 2 THEN [n |-> -1, err |-> "ErrMessageInvalidVersion", m |-> m]
        ELSE IF (data[1] \div 4) % 16 > 8 THEN [n |-> -1, err |-> "ErrInvalidTokenLen", m |-> m]
        ELSE body(DecodeBody(Drop(data, 8), (data[1] \div 4) % 16, m))

V2Decode(data, m) == V2DecodeVer(data, m, FALSE)

V2DecodePbuf(data, m) == V2DecodeVer(data, m, TRUE)

(***************************************************************************)
(* The legacy V1 path of package secoap: Message.MarshalBinary and         *)
(* Message.UnmarshalBinary                                                 *)
(***************************************************************************)
\* writeOptHeader of MarshalBinary: the header byte and its extensions
writeOptHeader(delta, length) ==
    LET writeExt(opt, ext) ==
            IF opt = ExtendOptionByteCode THEN <<ToByte(ext)>>
            ELSE IF opt = ExtendOptionWordCode THEN PutUint16BE(ToUint16(ext))
            ELSE <<>>
        write(d, l) ==
            <<BitOr(ToByte(d[1] * 16), ToByte(l[1]))>>
            \o writeExt(d[1], d[2]) \o writeExt(l[1], l[2])
    IN  write(extendOpt(delta), extendOpt(length))

\* the option loop of MarshalBinary over the first i options of the sorted list
RECURSIVE MarshalBinaryOpts(_, _)
MarshalBinaryOpts(opts, i) ==
    LET one(prev, b) ==
            MarshalBinaryOpts(opts, i - 1) \o writeOptHeader(opts[i].ID - prev, Len(b)) \o b
    IN  IF i = 0 THEN <<>>
        ELSE one(IF i = 1 THEN 0 ELSE opts[i - 1].ID, ToBytes(opts[i]))

\* the options left in the order in which they were added
MarshalBinaryNoSort(opts) == opts

\* sort.Stable(&m.Opts) of MarshalBinary
MarshalBinarySort(opts) == SortStable(opts)

\* Message.MarshalBinary: returns the frame; m.Opts is left sorted
MarshalBinary(m) ==
    LET options(sorted) == MarshalBinaryOpts(sorted, Len(sorted))
    IN  V1Header(m)
        \o m.Token
        \o options(MarshalBinarySort(m.Opts))
        \o (IF Len(m.Payload) > 0 THEN <<255>> ELSE <<>>)
        \o m.Payload

\* the option loop of UnmarshalBinary; returns [err, opts, b]
RECURSIVE UnmarshalBinaryOpts(_, _, _)
UnmarshalBinaryOpts(b, prev, opts) ==
    LET value(oid, rest, opval) ==
            UnmarshalBinaryOpts(rest, oid,
                                IF opval.k # "nil" THEN Append(opts, Option(oid, opval))
                                ELSE opts)
        body(pd, pl, b3) ==
            IF Len(b3) < pl.opt THEN [err |-> "truncated", opts |-> opts, b |-> b3]
            ELSE value(prev + pd.opt, Drop(b3, pl.opt),
                       parseOptionValue(prev + pd.opt, Take(b3, pl.opt)))
        length(pd, b2, pl) ==
            IF pl.err # "nil" THEN [err |-> "truncated", opts |-> opts, b |-> b2]
            ELSE body(pd, pl, Drop(b2, pl.processed))
        afterDelta(pd, b2) == length(pd, b2, parseExtOpt(b2, b[1] % 16))
        delta(pd) ==
            IF pd.err # "nil" THEN [err |-> "truncated", opts |-> opts, b |-> Drop(b, 1)]
            ELSE afterDelta(pd, Drop(b, 1 + pd.processed))
    IN  IF Len(b) = 0 THEN [err |-> "nil", opts |-> opts, b |-> b]
        ELSE IF b[1] = 255 THEN [err |-> "nil", opts |-> opts, b |-> Drop(b, 1)]
        ELSE IF b[1] \div 16 = ExtendOptionError \/ b[1] % 16 = ExtendOptionError
        THEN [err |-> "unexpected extended option marker", opts |-> opts, b |-> b]
        ELSE delta(parseExtOpt(Drop(b, 1), b[1] \div 16))

\* Message.UnmarshalBinary: returns [err, m]
UnmarshalBinary(data, m) ==
    LET options(m3, r) ==
            IF r.err # "nil" THEN [err |-> r.err, m |-> [m3 EXCEPT !.Opts = r.opts]]
            ELSE [err |-> "nil",
                  m |-> [m3 EXCEPT !.Opts = r.opts, !.Payload = r.b, !.PayloadNil = FALSE]]
        token(tokenLen, m3) ==
            options(m3, UnmarshalBinaryOpts(Drop(data, 4 + tokenLen), 0, m3.Opts))
        header(tokenLen, m2) ==
            IF Len(data) < 4 + tokenLen THEN [err |-> "truncated", m |-> m2]
            ELSE token(tokenLen,
                       [m2 EXCEPT !.Token =
                            WriteAt(@, 0, Take(SubSeq(data, 5, 4 + tokenLen), Len(@)))])
        typed(tokenLen, m1) ==
            IF tokenLen > 8 THEN [err |-> "ErrInvalidTokenLen", m |-> m1]
            ELSE header(tokenLen,
                        [m1 EXCEPT !.Code = data[2],
                                   !.MessageID = Uint16BE(SubSeq(data, 3, 4)),
                                   !.Token = IF tokenLen > 0
                                             THEN [i \in 1..tokenLen |-> 0] ELSE @,
                                   !.TokenNil = IF tokenLen > 0 THEN FALSE ELSE @])
    IN  IF Len(data) < 4 THEN [err |-> "short packet", m |-> m]
        ELSE IF Version(data[1]) # 1 THEN [err |-> "invalid version", m |-> m]
        ELSE typed(data[1] % 16, [m EXCEPT !.Type = (data[1] \div 16) % 4])

(***************************************************************************)
(* EncodeUint32 and DecodeUint32.  A uint32 is the pair <<hi, lo>> of its   *)
(* upper and lower 16 bits.                                                *)
(***************************************************************************)
\* binary.BigEndian.PutUint32
PutUint32BE(v) == PutUint16BE(v[1]) \o PutUint16BE(v[2])

\* binary.BigEndian.Uint32(b[0:4])
Uint32BE(b) == <<Uint16BE(b), Uint16BE(Drop(b, 2))>>

\* EncodeUint32 with the bounds of the cases one too low
EncodeUint32Below(buf, value) ==
    LET put(n, bytes) ==
            IF Len(buf) < n THEN [n |-> n, err |-> "ErrTooSmall", buf |-> buf]
            ELSE [n |-> n, err |-> "nil", buf |-> WriteAt(buf, 0, bytes)]
    IN  IF value = <<0, 0>> THEN [n |-> 0, err |-> "nil", buf |-> buf]
        ELSE IF value[1] = 0 /\ value[2] < 255 THEN put(1, <<ToByte(value[2])>>)
        ELSE IF value[1] = 0 /\ value[2] < 65535 THEN put(2, PutUint16BE(value[2]))
        ELSE IF value[1] < 255 \/ (value[1] = 255 /\ value[2] < 65535)
             THEN put(3, Drop(PutUint32BE(value), 1))
        ELSE put(4, PutUint32BE(value))

\* EncodeUint32(buf, value): returns [n, err, buf]
EncodeUint32(buf, value) ==
    LET put(n, bytes) ==
            IF Len(buf) < n THEN [n |-> n, err |-> "ErrTooSmall", buf |-> buf]
            ELSE [n |-> n, err |-> "nil", buf |-> WriteAt(buf, 0, bytes)]
    IN  IF value = <<0, 0>> THEN [n |-> 0, err |-> "nil", buf |-> buf]
        ELSE IF value[1] = 0 /\ value[2] <= 255 THEN put(1, <<ToByte(value[2])>>)
        ELSE IF value[1] = 0 THEN put(2, PutUint16BE(value[2]))
        ELSE IF value[1] <= 255 THEN put(3, Drop(PutUint32BE(value), 1))
        ELSE put(4, PutUint32BE(value))

\* DecodeUint32(buf): returns [value, n, err]
DecodeUint32(buf) ==
    LET decode(b) ==
            [value |-> Uint32BE([i \in 1..(4 - Len(b)) |-> 0] \o b),
             n |-> Len(b), err |-> "nil"]
    IN  decode(IF Len(buf) > 4 THEN Take(buf, 4) ELSE buf)

NoUint32 == [value |-> <<0, 0>>, buf |-> <<>>, n |-> 0, err |-> "nil", fill |-> 0, dec |-> <<>>]

(***************************************************************************)
(* Option accessors of secoapcore.Message.  A string is its sequence of     *)
(* bytes; a []string value is StrsValue of the sequence of its strings.     *)
(***************************************************************************)
StrsValue(l) == [k |-> "strings", b |-> l, n |-> 0]

\* Options.Minus(opID): the options that do not carry opID, in their order
Minus(opts, opID) == SelectSeq(opts, LAMBDA o : o.ID # opID)

\* Message.Options(o): the values of the options that carry o, in list order
MessageOptions(m, o) ==
    LET rv(opts) == [i \in 1..Len(opts) |-> opts[i].Value]
    IN  rv(SelectSeq(m.Opts, LAMBDA v : v.ID = o))

\* Message.optionStrings(o): o.(string) panics on a value of another type
optionStrings(m, o) ==
    LET strs(vals) ==
            IF \E i \in 1..Len(vals) : vals[i].k # "string"
            THEN [panic |-> TRUE, rv |-> <<>>]
            ELSE [panic |-> FALSE, rv |-> [i \in 1..Len(vals) |-> vals[i].b]]
    IN  strs(MessageOptions(m, o))

\* Message.Path()
Path(m) == optionStrings(m, URIPath)

\* AddOption with a list of strings appended as one option holding the list
AddOptionAsOne(m, opID, val) == [m EXCEPT !.Opts = Append(@, Option(opID, val))]

\* Message.AddOption(opID, val): a slice of strings gives one option for each
\* element, any other value one option
AddOption(m, opID, val) ==
    IF val.k = "strings"
    THEN [m EXCEPT !.Opts = @ \o [i \in 1..Len(val.b) |-> Option(opID, StrValue(val.b[i]))]]
    ELSE [m EXCEPT !.Opts = Append(@, Option(opID, val))]

\* Message.RemoveOption(opID)
RemoveOption(m, opID) == [m EXCEPT !.Opts = Minus(@, opID)]

\* Message.SetOption(opID, val)
SetOption(m, opID, val) == AddOption(RemoveOption(m, opID), opID, val)

\* Message.SetPath(s)
SetPath(m, s) == SetOption(m, URIPath, StrsValue(s))

\* strings.Split(s, "/"): the substrings between the '/' bytes of s
RECURSIVE Split(_)
Split(s) ==
    LET cut(i) == <<Take(s, i - 1)>> \o Split(Drop(s, i))
    IN  IF \A i \in 1..Len(s) : s[i] # 47 THEN <<s>>
        ELSE cut(CHOOSE i \in 1..Len(s) : s[i] = 47 /\ \A j \in 1..(i - 1) : s[j] # 47)

\* the loop of SetPathString: for s[0] == '/' { s = s[1:] }; s[0] of an
\* empty string is out of range and panics
RECURSIVE StripSlashes(_)
StripSlashes(s) ==
    IF Len(s) = 0 THEN [panic |-> TRUE, s |-> s]
    ELSE IF s[1] = 47 THEN StripSlashes(Drop(s, 1))
    ELSE [panic |-> FALSE, s |-> s]

\* Message.SetPathString(s): returns [panic, m]
SetPathString(m, s) ==
    LET set(r) ==
            IF r.panic THEN [panic |-> TRUE, m |-> m]
            ELSE [panic |-> FALSE, m |-> SetPath(m, Split(r.s))]
    IN  set(StripSlashes(s))

(***************************************************************************)
(* Bounded inputs                                                          *)
(***************************************************************************)
MaxPayloadLen == 2
MaxOpts == 2
MaxTokLen == 9
LongPayloadLen == 9

PayloadBytes == {104, 255}

RECURSIVE SeqsUpTo(_, _)
SeqsUpTo(S, n) ==
    IF n = 0 THEN {<<>>}
    ELSE LET shorter == SeqsUpTo(S, n - 1)
         IN  shorter \cup {Append(q, x) : q \in {r \in shorter : Len(r) = n - 1}, x \in S}

Payloads == SeqsUpTo(PayloadBytes, MaxPayloadLen) \cup {[i \in 1..LongPayloadLen |-> i]}

TokenOf(n) == [i \in 1..n |-> 160 + i]

Tokens == {TokenOf(n) : n \in {0, 1, MaxTokenSize, MaxTokLen}}

\* options of every value format, each of its registered Go type
OptionPool ==
    {Option(URIPath, StrValue(<<97>>)),
     Option(URIPath, StrValue(<<98>>)),
     Option(Observe, UintValue(300)),
     Option(ETag, BytesValue(<<1>>))}

\* options that need the extended delta and length encodings
WideOptions ==
    {<<Option(URIQuery, StrValue(<<122, 61, 49>>)), Option(URIPath, StrValue(<<112>>))>>,
     <<Option(Size1, UintValue(65536)), Option(IfNoneMatch, BytesValue(<<>>))>>,
     <<Option(GiterLabID, StrValue([i \in 1..13 |-> 64 + i])), Option(Observe, UintValue(0))>>,
     <<Option(PackageNumber, UintValue(65535)), Option(GiterLabID, StrValue(<<>>)),
       Option(MaxAge, UintValue(16777216))>>}

OptionLists == SeqsUpTo(OptionPool, MaxOpts) \cup WideOptions

Message(token, opts, payload, typ, mid, code, eid, etp) ==
    [NewMessage EXCEPT !.Token = token, !.TokenNil = FALSE, !.Opts = opts,
                       !.Payload = payload, !.PayloadNil = FALSE,
                       !.Type = typ, !.MessageID = mid, !.Code = code,
                       !.EncoderID = eid, !.EncoderType = etp]

\* every token, option list and payload under one valid header
BodyMessages ==
    {Message(t, o, p, NonConfirmable, 4660, 2, 5, 0) :
        t \in Tokens, o \in OptionLists, p \in Payloads}

Types == {Unset, Confirmable, NonConfirmable, Acknowledgement, Reset, 4, 255, 256}
MessageIDs == {-1, 0, 4660, 65535, 65536}
Encoders == {<<0, 0>>, <<5, 0>>, <<15, 15>>, <<16, 0>>, <<0, 16>>, <<-1, 0>>}
Codes == {1, 255}

\* every header field, valid and invalid, over two bodies
HeaderMessages ==
    {Message(TokenOf(n), <<Option(URIPath, StrValue(<<97>>))>>, <<104>>, ty, mid, c, e[1], e[2]) :
        n \in {1, MaxTokLen}, ty \in Types, mid \in MessageIDs, c \in Codes, e \in Encoders}

Messages == BodyMessages \cup HeaderMessages

\* a fresh buffer: make([]byte, blen, cap) with every byte set to fill
BufFill == {0, 238}

FreshBuf(cap, fill) == [i \in 1..cap |-> fill]

\* <<len, cap>> of the buffers tried for a message that needs `need` bytes
\* (need < 0: the codec's Size fails)
BufShapes(need) ==
    IF need < 0 THEN {<<0, 0>>, <<16, 16>>}
    ELSE {<<0, 0>>, <<need, need>>, <<need, 2 * need>>, <<2 * need, 2 * need>>}
         \cup (IF need > 0 THEN {<<need - 1, need - 1>>} ELSE {})

NoResult == [codec |-> "none", n |-> 0, err |-> "nil", fill |-> 0]

\* Frames that arrive from the network without having been encoded here.
\* The first byte carries every version and token lengths 0, 1, 2, 4, 9, 15.
FirstBytes == {(v * 64) + x : v \in 0..3, x \in {0, 1, 9, 36, 63}}

\* what follows the first byte: headers alone, tokens, options with
\* registered and unregistered IDs, legal and illegal value lengths, payloads
FrameTails ==
    {<<1, 0>>,
     <<1, 0, 0>>,
     <<1, 0, 0, 161>>,
     <<1, 0, 0, 177, 97, 0, 0>>,
     <<1, 0, 0, 161, 0, 0, 0, 0>>,
     <<1, 0, 0, 32, 145, 97>>,
     <<1, 0, 0, 33, 7, 145, 97, 255, 104>>,
     <<1, 0, 0, 48, 129, 97>>,
     <<1, 0, 0, 100, 1, 2, 3, 4, 81, 98>>,
     <<1, 0, 0, 224, 0, 245, 0, 0, 0, 0, 33, 7>>,
     <<1, 0, 0, 0, 0, 0, 0, 32, 145, 97>>,
     <<1, 0, 0, 0, 0, 0, 0, 48, 129, 97, 255, 104>>,
     <<1, 0, 0, 0, 0, 0, 0, 161, 162, 163, 164, 165, 166, 167, 168, 169>>}

\* f with its byte 7 set so that RSUM8 of the whole is zero (Len(f) >= 8)
Seal(f) ==
    LET z == WriteAt(f, 7, <<0>>)
    IN  WriteAt(z, 7, <<RSUM8(z)>>)

\* f with the CRC16 of its payload p stored big-endian at bytes 2..3
WithCrc(f, p) == WriteAt(f, 2, PutUint16BE(CRC16Bytes(p)))

PlainFrames == {<<b>> \o t : b \in FirstBytes, t \in FrameTails}

RawFrames ==
    PlainFrames
    \cup {Seal(f) : f \in {g \in PlainFrames : Len(g) >= 8}}
    \cup {Seal(WithCrc(f, <<104>>)) : f \in {g \in PlainFrames : Len(g) >= 8}}

\* the bit patterns xor-ed into one byte of a frame: every single bit, and two
\* patterns of several bits
CorruptMasks == {1, 2, 4, 8, 16, 32, 64, 128, 3, 255}

\* messages whose frames are corrupted in transit
FlipMessages ==
    {m \in BodyMessages :
        /\ Len(m.Token) <= 1
        /\ Len(m.Payload) <= MaxPayloadLen
        /\ m.Opts \in {<<>>, <<Option(URIPath, StrValue(<<97>>))>>}}

\* no call outside the codecs is under way
(***************************************************************************)
(* The pooled message of package message.  A []byte buffer is [back, len]:  *)
(* its backing array and its length (cap = Len(back)); the value buffer is  *)
(* [grown, off, len]: whether append has moved it to a new array, and its   *)
(* window; an io.ReadSeeker body is [nil, b].                               *)
(***************************************************************************)
valueBufferSize == 256

\* make([]byte, 256) of NewMessage and Reset
ScratchSize == 256

\* the capacity above which Reset replaces a scratch buffer
ScratchLimit == 1024

\* make([]byte, n)
Make(n) == [back |-> [i \in 1..n |-> 0], len |-> n]

\* append(buf, make([]byte, k)...) where the new array, if one is needed, gets
\* the capacity newcap >= len(buf) + k
AppendZeros(buf, k, newcap) ==
    LET need == buf.len + k
    IN  IF need <= Len(buf.back)
        THEN [back |-> WriteAt(buf.back, buf.len, [i \in 1..k |-> 0]), len |-> need]
        ELSE [back |-> Take(buf.back, buf.len) \o [i \in 1..(newcap - buf.len) |-> 0],
              len |-> need]

NilBody == [nil |-> TRUE, b |-> <<>>, pos |-> 0]

\* bytes.NewReader(b)
NewReader(b) == [nil |-> FALSE, b |-> b, pos |-> 0]

\* Seek(offset, io.SeekStart)
SeekStart(body, offset) == [body EXCEPT !.pos = offset]

\* Seek(0, io.SeekEnd)
SeekEnd(body) == [body EXCEPT !.pos = Len(body.b)]

origValueBuffer == [grown |-> FALSE, off |-> 0, len |-> valueBufferSize]

\* message.NewMessage
MessageNewMessage ==
    [msg |-> NewMessage, isModified |-> FALSE,
     valueBuffer |-> origValueBuffer, body |-> NilBody,
     bufferUnmarshal |-> Make(ScratchSize), bufferMarshal |-> Make(ScratchSize)]

\* message.Message.Reset
MessageReset(r) ==
    [r EXCEPT !.msg = [@ EXCEPT !.Token = <<>>, !.TokenNil = TRUE, !.Code = 0,
                                !.Opts = <<>>, !.MessageID = -1, !.Type = Unset,
                                !.Payload = <<>>, !.PayloadNil = TRUE],
              !.valueBuffer = origValueBuffer,
              !.body = NilBody,
              !.isModified = FALSE,
              !.bufferMarshal = IF Len(@.back) > ScratchLimit THEN Make(ScratchSize) ELSE @,
              !.bufferUnmarshal = IF Len(@.back) > ScratchLimit THEN Make(ScratchSize) ELSE @]

\* message.Message.SetMessage
MessageSetMessage(r, message) ==
    [MessageReset(r) EXCEPT !.msg = message,
                            !.body = IF Len(message.Payload) > 0
                                     THEN NewReader(message.Payload) ELSE @,
                            !.isModified = TRUE]

MessageSetVersion(r, ver) == [r EXCEPT !.msg.Ver = ver, !.isModified = TRUE]

MessageSetMessageID(r, mid) == [r EXCEPT !.msg.MessageID = mid, !.isModified = TRUE]

MessageSetType(r, typ) == [r EXCEPT !.msg.Type = typ, !.isModified = TRUE]

MessageSetEncoderID(r, eid) == [r EXCEPT !.msg.EncoderID = eid, !.isModified = TRUE]

MessageSetEncoderType(r, etp) == [r EXCEPT !.msg.EncoderType = etp, !.isModified = TRUE]

\* message.Message.UpsertVersion
MessageUpsertVersion(r, ver) ==
    IF ValidateVer(ver) THEN r ELSE MessageSetVersion(r, ver)

\* message.Message.UpsertMessageID
MessageUpsertMessageID(r, mid) ==
    IF ValidateMID(r.msg.MessageID) THEN r ELSE MessageSetMessageID(r, mid)

\* message.Message.UpsertType
MessageUpsertType(r, typ) ==
    IF ValidateType(r.msg.Type) THEN r ELSE MessageSetType(r, typ)

\* message.Message.UpsertEncoderID
MessageUpsertEncoderID(r, eid) ==
    IF ValidateEID(r.msg.EncoderID) THEN r ELSE MessageSetEncoderID(r, eid)

\* message.Message.UpsertEncoderType
MessageUpsertEncoderType(r, etp) ==
    IF ValidateETP(r.msg.EncoderType) THEN r ELSE MessageSetEncoderType(r, etp)

MessageSetCode(r, code) == [r EXCEPT !.msg.Code = code, !.isModified = TRUE]

\* message.Message.SetToken: nil is <<>> with isNil
MessageSetToken(r, token, isNil) ==
    IF isNil THEN [r EXCEPT !.msg.Token = <<>>, !.msg.TokenNil = TRUE]
    ELSE [r EXCEPT !.msg.Token = token,
                   !.msg.TokenNil = IF Len(token) = 0 THEN @ ELSE FALSE]

MessageSetBody(r, s) == [r EXCEPT !.body = s, !.isModified = TRUE]

\* message.Message.AddOptionBytes: the value is copied into the value buffer,
\* which moves to a new array when it is too short
MessageAddOptionBytes(r, opt, value) ==
    LET grow(vb) ==
            IF vb.len < Len(value) THEN [grown |-> TRUE, off |-> vb.off, len |-> Len(value)]
            ELSE vb
        add(vb) ==
            [r EXCEPT !.msg.Opts = Append(@, Option(opt, BytesValue(value))),
                      !.valueBuffer = [vb EXCEPT !.off = @ + Len(value),
                                                 !.len = @ - Len(value)],
                      !.isModified = TRUE]
    IN  add(grow(r.valueBuffer))

\* message.Message.BodySize: [size, body]
BodySize(r) ==
    LET restored(orig, end) == [size |-> end.pos, body |-> SeekStart(end, orig)]
    IN  IF r.body.nil THEN [size |-> 0, body |-> r.body]
        ELSE restored(r.body.pos, SeekEnd(SeekStart(r.body, 0)))

\* the bytes message.Message.ReadBody returns
ReadBody(r) == IF r.body.nil THEN <<>> ELSE r.body.b

\* the body as message.Message.ReadBody leaves it: io.ReadFull has read from
\* the start to the end
BodyAfterRead(r) ==
    LET read(sz) ==
            IF sz.size = 0 THEN sz.body
            ELSE [SeekStart(sz.body, 0) EXCEPT !.pos = @ + Len(ReadBody(r))]
    IN  IF r.body.nil THEN r.body ELSE read(BodySize(r))

\* message.Message.toMessage
toMessage(r) ==
    [r.msg EXCEPT !.Payload = ReadBody(r), !.PayloadNil = (Len(ReadBody(r)) = 0)]

\* Encoder.Size of the coder enc
EncoderSize(enc, m) ==
    CASE enc = "v0" -> V0Size(m)
      [] enc = "v1" -> V1Size(m)
      [] OTHER -> V2Size(m)

\* Encoder.Encode of the coder enc
EncoderEncode(enc, m, back, blen) ==
    CASE enc = "v0" -> V0Encode(m, back, blen)
      [] enc = "v1" -> V1Encode(m, back, blen)
      [] OTHER -> V2Encode(m, back, blen)

\* Decoder.Decode of the coder dec
DecoderDecode(dec, data, m) ==
    CASE dec = "v0" -> V0Decode(data, m)
      [] dec = "v1" -> V1Decode(data, m)
      [] OTHER -> V2Decode(data, m)

\* message.Message.MarshalWithEncoder; enc = "nil" is the nil interface, on
\* which the call of Size panics.  newcap is the capacity append gives a new
\* array.  Returns [r, out, err, coder].
MarshalWithEncoder(r, enc, newcap) ==
    LET \* toMessage has read the body
        rd == [r EXCEPT !.body = BodyAfterRead(r)]
        ret(r1, out, err) == [r |-> r1, out |-> out, err |-> err, coder |-> enc]
        encoded(r1, e) ==
            IF e.err # "nil"
            THEN ret([r1 EXCEPT !.bufferMarshal.back = e.back], <<>>, e.err)
            ELSE ret([r1 EXCEPT !.bufferMarshal = [back |-> e.back, len |-> e.n]],
                     Take(e.back, e.n), "nil")
        grown(m, r1) ==
            encoded(r1, EncoderEncode(enc, m, r1.bufferMarshal.back, r1.bufferMarshal.len))
        sized(m, sz) ==
            IF sz.err # "nil" THEN ret(rd, <<>>, sz.err)
            ELSE IF r.bufferMarshal.len < sz.n
            THEN grown(m, [rd EXCEPT !.bufferMarshal =
                                 AppendZeros(@, sz.n - @.len,
                                             IF newcap < sz.n THEN sz.n ELSE newcap)])
            ELSE grown(m, rd)
    IN  IF enc = "nil" THEN ret(rd, <<>>, "panic")
        ELSE sized(toMessage(r), EncoderSize(enc, toMessage(r)))

\* message.Message.decode: Decode is repeated with an options vector of twice
\* the length while it answers ErrOptionsTooSmall; with no option in the
\* vector the loop does not end.  Returns [n, err, m].
RECURSIVE MessageDecode(_, _, _)
MessageDecode(dec, data, m) ==
    LET again(d) ==
            IF d.err # "ErrOptionsTooSmall" THEN d
            ELSE IF Len(d.m.Opts) = 0 THEN [n |-> d.n, err |-> "hang", m |-> d.m]
            ELSE MessageDecode(dec, data,
                               [d.m EXCEPT !.Opts = <<>>, !.OptsCap = 2 * Len(d.m.Opts)])
    IN  again(DecoderDecode(dec, data, m))

\* message.Message.UnmarshalWithDecoder; dec = "nil" is the nil interface, on
\* which the call of Decode panics.  Returns [r, n, err, coder].
UnmarshalWithDecoder(r, dec, data, newcap) ==
    LET ret(r1, n, err) == [r |-> r1, n |-> n, err |-> err, coder |-> dec]
        decoded(r1, d) ==
            IF d.err # "nil" THEN ret([r1 EXCEPT !.msg = d.m], d.n, d.err)
            ELSE ret([r1 EXCEPT !.msg = d.m,
                                !.body = IF Len(d.m.Payload) > 0
                                         THEN NewReader(d.m.Payload) ELSE @],
                     d.n, "nil")
        copied(r1) ==
            IF dec = "nil" THEN ret(r1, 0, "panic")
            ELSE decoded(r1, MessageDecode(dec, data, r1.msg))
        sized(buf) ==
            copied([r EXCEPT !.bufferUnmarshal =
                                 [back |-> WriteAt(buf.back, 0, data), len |-> Len(data)],
                             !.body = NilBody])
    IN  IF r.bufferUnmarshal.len < Len(data)
        THEN sized(AppendZeros(r.bufferUnmarshal, Len(data) - r.bufferUnmarshal.len,
                               IF newcap < Len(data) THEN Len(data) ELSE newcap))
        ELSE sized(r.bufferUnmarshal)

\* no pooled message and no envelope
\* what is kept of the call before the last one
NoWas == [last |-> "none", err |-> "nil", coder |-> "nil", out |-> <<>>, pos |-> 0]

NoPool ==
    [r |-> MessageNewMessage, calls |-> 0, last |-> "none", n |-> 0, err |-> "nil",
     out |-> <<>>, coder |-> "nil", was |-> NoWas]

NoEnv == [kind |-> "none", Version |-> 0, Message |-> <<>>, calls |-> 0,
          last |-> "none", coder |-> "none", n |-> 0, out |-> <<>>, err |-> "nil"]

(***************************************************************************)
(* The envelope Secoap of package secoap, in its two copies: kind "full"    *)
(* selects among the coders of versions 0, 1 and 2, kind "v1only" knows     *)
(* versions 0 and 1.  Message is <<>> for nil and <<r>> for a message r.    *)
(***************************************************************************)
Version0 == 0
Version1 == 1
Version2 == 2

\* NewSecoap(ver secoapcore.Ver)
NewSecoap(ver) ==
    [NoEnv EXCEPT !.kind = "full",
                  !.Version = IF ver > 2 THEN Version2 ELSE ver,
                  !.Message = <<MessageNewMessage>>]

\* NewSecoap(ver uint8) of the second copy: <<>> is the nil it returns
NewSecoapV1Only(ver) ==
    IF ver > 1 THEN <<>>
    ELSE <<[NoEnv EXCEPT !.kind = "v1only", !.Version = ver,
                         !.Message = <<MessageNewMessage>>]>>

\* the switch of Marshal and Unmarshal over s.Version: the coder it selects,
\* "nil" when the case assigns none, "invalid" for the default case
SelectCoder(s) ==
    IF s.kind = "full"
    THEN CASE s.Version = Version0 -> "v0"
           [] s.Version = Version1 -> "v1"
           [] s.Version = Version2 -> "v2"
           [] OTHER -> "invalid"
    ELSE CASE s.Version = Version0 -> "nil"
           [] s.Version = Version1 -> "v1"
           [] OTHER -> "invalid"

\* Secoap.Marshal
SecoapMarshal(s, newcap) ==
    LET ret(out, err, coder) ==
            [s EXCEPT !.last = "Marshal", !.n = 0, !.out = out, !.err = err,
                      !.coder = coder]
        call(m) ==
            [ret(m.out, m.err, m.coder) EXCEPT !.Message = <<m.r>>]
    IN  IF s.Message = <<>> THEN ret(<<>>, "ErrMessageNil", "none")
        ELSE IF SelectCoder(s) = "invalid" THEN ret(<<>>, "ErrMessageInvalidVersion", "none")
        ELSE call(MarshalWithEncoder(s.Message[1], SelectCoder(s), newcap))

\* Secoap.Unmarshal
SecoapUnmarshal(s, data, newcap) ==
    LET ret(n, err, coder) ==
            [s EXCEPT !.last = "Unmarshal", !.n = n, !.out = <<>>, !.err = err,
                      !.coder = coder]
        call(m) ==
            [ret(m.n, m.err, m.coder) EXCEPT !.Message = <<m.r>>]
    IN  IF s.Message = <<>> THEN ret(0, "ErrMessageNil", "none")
        ELSE IF SelectCoder(s) = "invalid" THEN ret(0, "ErrMessageInvalidVersion", "none")
        ELSE call(UnmarshalWithDecoder(s.Message[1], SelectCoder(s), data, newcap))

(***************************************************************************)
(* The message ID counter: the uint32 msgID is the pair <<hi, lo>> of its   *)
(* 16-bit halves.                                                          *)
(***************************************************************************)
\* the counter left where it is
AddUint32Stuck(v, delta) == v

\* atomic.AddUint32(&msgID, delta): the new value, modulo 2^32
AddUint32(v, delta) ==
    <<(v[1] + ((v[2] + delta) \div 65536)) % 65536, (v[2] + delta) % 65536>>

\* int32(uint16(v)) of GetMID: the low 16 bits
LowUint16(v) == v[2] % 65536

\* no caller of GetMID
NoMID == [msgID |-> <<0, 0>>, start |-> <<0, 0>>, pc |-> <<>>, added |-> <<>>,
          got |-> <<>>, order |-> <<>>]

\* no call on a single option under way
NoOptc == [call |-> "none", v |-> 0, opt |-> 0, ext |-> 0, o |-> Option(0, NilValue),
           prev |-> 0, buf |-> <<>>, fill |-> 0, n |-> 0, err |-> "nil", ret |-> <<>>]

\* a second message, fresh from NewMessage, that no Decode has written yet
NoSecond == [m |-> NewMessage, n |-> 0, err |-> "nil"]

OthersIdle ==
    /\ u32 = NoUint32 /\ second = NoSecond /\ pool = NoPool /\ env = NoEnv /\ ids = NoMID
    /\ optc = NoOptc

(***************************************************************************)
(* Specification: a message is encoded into a fresh buffer by one of the   *)
(* codecs and the frame is transmitted, or a frame arrives from the         *)
(* network; a byte of the frame may be altered in transit; a codec decodes  *)
(* the frame into a fresh message.  The codecs keep no state between calls, *)
(* so one round per message covers every call.                             *)
(***************************************************************************)
InitSend ==
    /\ msg \in Messages
    /\ bufBack = <<>>
    /\ bufLen = 0
    /\ encRes = NoResult
    /\ frame = <<>>
    /\ target = NewMessage
    /\ decRes = NoResult
    /\ op = "init"
    /\ OthersIdle

InitReceive ==
    /\ msg = NewMessage
    /\ frame \in RawFrames
    /\ bufBack = frame
    /\ bufLen = Len(frame)
    /\ encRes = [codec |-> "wire", n |-> Len(frame), err |-> "nil", fill |-> 0]
    /\ target = NewMessage
    /\ decRes = NoResult
    /\ op = "transmit"
    /\ OthersIdle

Init == InitSend \/ InitReceive

Encoded(codec, r, shape, fill) ==
    /\ bufBack' = r.back
    /\ bufLen' = shape[1]
    /\ encRes' = [codec |-> codec, n |-> r.n, err |-> r.err, fill |-> fill]
    /\ frame' = <<>>
    /\ target' = NewMessage
    /\ decRes' = NoResult
    /\ op' = "encode"
    /\ UNCHANGED <<msg, others>>

EncodeV0 ==
    /\ op = "init"
    /\ \E shape \in BufShapes(V0Size(msg).n), fill \in BufFill :
        Encoded("v0", V0Encode(msg, FreshBuf(shape[2], fill), shape[1]), shape, fill)

EncodeV1 ==
    /\ op = "init"
    /\ \E shape \in BufShapes(V1Size(msg).n), fill \in BufFill :
        Encoded("v1", V1Encode(msg, FreshBuf(shape[2], fill), shape[1]), shape, fill)

EncodeV2 ==
    /\ op = "init"
    /\ \E shape \in BufShapes(V2Size(msg).n), fill \in BufFill :
        Encoded("v2", V2Encode(msg, FreshBuf(shape[2], fill), shape[1]), shape, fill)

EncodeV2Pbuf ==
    /\ op = "init"
    /\ \E shape \in BufShapes(V2Size(msg).n), fill \in BufFill :
        Encoded("v2pbuf", V2EncodePbuf(msg, FreshBuf(shape[2], fill), shape[1]), shape, fill)

\* Message.MarshalBinary allocates its own buffer and sorts m.Opts in place
EncodeLegacy ==
    /\ op = "init"
    /\ bufBack' = MarshalBinary(msg)
    /\ bufLen' = Len(bufBack')
    /\ encRes' = [codec |-> "legacy", n |-> Len(bufBack'), err |-> "nil", fill |-> 0]
    /\ msg' = [msg EXCEPT !.Opts = MarshalBinarySort(@)]
    /\ frame' = <<>>
    /\ target' = NewMessage
    /\ decRes' = NoResult
    /\ op' = "encode"
    /\ UNCHANGED others

\* the n bytes an encoder reported become the frame on the wire
Transmit ==
    /\ op = "encode"
    /\ encRes.err = "nil"
    /\ frame' = Take(bufBack, encRes.n)
    /\ op' = "transmit"
    /\ UNCHANGED <<msg, bufBack, bufLen, encRes, target, decRes, others>>

\* one byte of the frame changes in transit
Corrupt ==
    /\ op = "transmit"
    /\ \/ encRes.codec = "wire"
       \/ msg \in FlipMessages /\ encRes.fill = 0 /\ bufLen = Len(bufBack)
    /\ \E i \in 1..Len(frame), mask \in CorruptMasks :
          frame' = [frame EXCEPT ![i] = BitXor(@, mask)]
    /\ op' = "corrupt"
    /\ UNCHANGED <<msg, bufBack, bufLen, encRes, target, decRes, others>>

Decoded(codec, r) ==
    /\ op \in {"transmit", "corrupt"}
    /\ target' = r.m
    /\ decRes' = [codec |-> codec, n |-> r.n, err |-> r.err, fill |-> 0]
    /\ op' = "decode"
    /\ UNCHANGED <<msg, bufBack, bufLen, encRes, frame, others>>

DecodeV0 == Decoded("v0", V0Decode(frame, target))

DecodeV1 == Decoded("v1", V1Decode(frame, target))

DecodeV2 == Decoded("v2", V2Decode(frame, target))

DecodeV2Pbuf == Decoded("v2pbuf", V2DecodePbuf(frame, target))

DecodeLegacy ==
    LET r == UnmarshalBinary(frame, target)
    IN  Decoded("legacy", [n |-> IF r.err = "nil" THEN Len(frame) ELSE -1,
                           err |-> r.err, m |-> r.m])

Next ==
    \/ EncodeV0
    \/ EncodeV1
    \/ EncodeV2
    \/ EncodeV2Pbuf
    \/ EncodeLegacy
    \/ Transmit
    \/ Corrupt
    \/ DecodeV0
    \/ DecodeV1
    \/ DecodeV2
    \/ DecodeV2Pbuf
    \/ DecodeLegacy

Spec == Init /\ [][Next]_vars

(***************************************************************************)
(* Specification: a message is built with the option accessors, encoded by *)
(* the V1 coder or by MarshalBinary, transmitted and decoded.               *)
(***************************************************************************)
Empty == 0
GET == 1

MaxBuildOpts == 3

\* "a", "b", "c"
Segments == <<<<97>>, <<98>>, <<99>>>>

\* the (opID, val) arguments of AddOption and SetOption
BuildArgs ==
    {<<URIPath, StrsValue(Segments)>>,
     <<URIPath, StrsValue(Take(Segments, 2))>>,
     <<URIPath, StrsValue(<<>>)>>,
     <<URIPath, StrValue(<<120>>)>>,
     <<URIQuery, StrValue(<<122, 61, 49>>)>>,
     <<ETag, BytesValue(<<1>>)>>}

\* path strings with the segments each holds once its leading '/' are
\* stripped: "/a/b/c", "a/b/c", "//a/b/c", "a/b", "/a//b", "a/"
PathCases ==
    {[s |-> <<47, 97, 47, 98, 47, 99>>, segs |-> Segments],
     [s |-> <<97, 47, 98, 47, 99>>, segs |-> Segments],
     [s |-> <<47, 47, 97, 47, 98, 47, 99>>, segs |-> Segments],
     [s |-> <<97, 47, 98>>, segs |-> Take(Segments, 2)],
     [s |-> <<47, 97, 47, 47, 98>>, segs |-> <<<<97>>, <<>>, <<98>>>>],
     [s |-> <<97, 47>>, segs |-> <<<<97>>, <<>>>>]}

\* "" and "/": nothing is left after the leading '/'
EmptyPaths == {<<>>, <<47>>}

PathStrings == {c.s : c \in PathCases} \cup EmptyPaths

\* a Confirmable GET and an Acknowledgement with code Empty, message ID
\* 0x1234, no token, no payload, with and without options
BuildMessages ==
    {Message(<<>>, o, <<>>, h[1], 4660, h[2], 0, 0) :
        h \in {<<Confirmable, GET>>, <<Acknowledgement, Empty>>},
        o \in {<<>>, <<Option(ETag, BytesValue(<<1>>)), Option(URIPath, StrValue(<<120>>))>>}}

InitBuild ==
    /\ msg \in BuildMessages
    /\ bufBack = <<>>
    /\ bufLen = 0
    /\ encRes = NoResult
    /\ frame = <<>>
    /\ target = NewMessage
    /\ decRes = NoResult
    /\ op = "init"
    /\ OthersIdle

\* an accessor call leaves the message m
Built(m) ==
    /\ op = "init"
    /\ Len(m.Opts) <= MaxBuildOpts
    /\ msg' = m
    /\ UNCHANGED <<bufBack, bufLen, encRes, frame, target, decRes, op, others>>

CallAddOption == \E a \in BuildArgs : Built(AddOption(msg, a[1], a[2]))

CallSetOption == \E a \in BuildArgs : Built(SetOption(msg, a[1], a[2]))

CallRemoveOption == \E opID \in {URIPath, ETag} : Built(RemoveOption(msg, opID))

CallSetPath == \E n \in 0..Len(Segments) : Built(SetPath(msg, Take(Segments, n)))

\* a panic of SetPathString ends the program
CallSetPathString ==
    \E s \in PathStrings :
        \/ ~SetPathString(msg, s).panic /\ Built(SetPathString(msg, s).m)
        \/ /\ SetPathString(msg, s).panic
           /\ op = "init"
           /\ op' = "panic"
           /\ UNCHANGED <<codecVars, others>>

NextBuild ==
    \/ CallAddOption
    \/ CallSetOption
    \/ CallRemoveOption
    \/ CallSetPath
    \/ CallSetPathString
    \/ EncodeV1
    \/ EncodeLegacy
    \/ Transmit
    \/ DecodeV1
    \/ DecodeLegacy

SpecBuild == InitBuild /\ [][NextBuild]_vars

(***************************************************************************)
(* Specification: a value is written by EncodeUint32 into a fresh buffer    *)
(* and the bytes written are read by DecodeUint32.                          *)
(***************************************************************************)
MaxUint32Buf == 5

\* the 16-bit halves the values are made of
Halves == {0, 1, 255, 256, 4660, 32767, 32768, 65535}

Uint32Values == Halves \X Halves

CodecIdle ==
    /\ msg = NewMessage
    /\ bufBack = <<>>
    /\ bufLen = 0
    /\ encRes = NoResult
    /\ frame = <<>>
    /\ target = NewMessage
    /\ decRes = NoResult

InitUint32 ==
    /\ CodecIdle
    /\ op = "init"
    /\ second = NoSecond /\ pool = NoPool /\ env = NoEnv /\ ids = NoMID /\ optc = NoOptc
    /\ \E v \in Uint32Values, n \in 0..MaxUint32Buf, fill \in BufFill :
          u32 = [NoUint32 EXCEPT !.value = v, !.buf = FreshBuf(n, fill), !.fill = fill]

CallEncodeUint32 ==
    /\ op = "init"
    /\ LET ret(r) == u32' = [u32 EXCEPT !.n = r.n, !.err = r.err, !.buf = r.buf]
       IN  ret(EncodeUint32(u32.buf, u32.value))
    /\ op' = "encode"
    /\ UNCHANGED restUint32

\* the test's buf = buf[:got] and DecodeUint32(buf)
CallDecodeUint32 ==
    /\ op = "encode"
    /\ u32.err = "nil"
    /\ u32' = [u32 EXCEPT !.dec = <<DecodeUint32(Take(u32.buf, u32.n))>>]
    /\ op' = "decode"
    /\ UNCHANGED restUint32

\* DecodeUint32 of the whole buffer
CallDecodeUint32All ==
    /\ op = "encode"
    /\ u32' = [u32 EXCEPT !.dec = <<DecodeUint32(u32.buf)>>]
    /\ op' = "decodeAll"
    /\ UNCHANGED restUint32

NextUint32 ==
    \/ CallEncodeUint32
    \/ CallDecodeUint32
    \/ CallDecodeUint32All

SpecUint32 == InitUint32 /\ [][NextUint32]_vars

(***************************************************************************)
(* Specification: a frame arrives and is decoded into a fresh message; then *)
(* a frame arrives and is decoded twice by one codec: into the message that *)
(* holds what the first Decode left, and into a second, fresh message.      *)
(***************************************************************************)
\* f with the CRC16 of its payload p stored little-endian at bytes 2..3
WithCrcLE(f, p) == WriteAt(f, 2, PutUint16LE(CRC16Bytes(p)))

\* frames that their codec accepts: V0 with and without payload, V1 and V2
\* with header alone and with token, option and payload
ReuseFrames ==
    {WithCrcLE(<<1, 35, 0, 0, 104>>, <<104>>),
     WithCrcLE(<<2, 0, 0, 0>>, <<>>),
     <<64, 2, 0, 5>>,
     <<65, 1, 18, 52, 7, 177, 97, 255, 104>>,
     Seal(WithCrc(<<128, 0, 0, 0, 0, 1, 1, 0>>, <<>>)),
     Seal(WithCrc(<<133, 69, 0, 0, 0, 9, 3, 0, 7, 177, 98, 255, 104>>, <<104>>))}

InitReuse ==
    /\ msg = NewMessage
    /\ frame \in ReuseFrames
    /\ bufBack = frame
    /\ bufLen = Len(frame)
    /\ encRes = [codec |-> "wire", n |-> Len(frame), err |-> "nil", fill |-> 0]
    /\ target = NewMessage
    /\ decRes = NoResult
    /\ op = "transmit"
    /\ OthersIdle

\* Decode(f, target) and Decode(f, second.m) of one codec: r and r2 are what
\* the two calls return
DecodedBoth(codec, f, r, r2) ==
    /\ op = "decode"
    /\ frame' = f
    /\ target' = r.m
    /\ decRes' = [codec |-> codec, n |-> r.n, err |-> r.err, fill |-> 0]
    /\ second' = [m |-> r2.m, n |-> r2.n, err |-> r2.err]
    /\ op' = "both"
    /\ UNCHANGED <<msg, bufBack, bufLen, encRes, u32, pool, env, ids, optc>>

DecodeBothV0 ==
    \E f \in ReuseFrames : DecodedBoth("v0", f, V0Decode(f, target), V0Decode(f, second.m))

DecodeBothV1 ==
    \E f \in ReuseFrames : DecodedBoth("v1", f, V1Decode(f, target), V1Decode(f, second.m))

DecodeBothV2 ==
    \E f \in ReuseFrames : DecodedBoth("v2", f, V2Decode(f, target), V2Decode(f, second.m))

DecodeBothV2Pbuf ==
    \E f \in ReuseFrames :
        DecodedBoth("v2pbuf", f, V2DecodePbuf(f, target), V2DecodePbuf(f, second.m))

NextReuse ==
    \/ DecodeV0
    \/ DecodeV1
    \/ DecodeV2
    \/ DecodeV2Pbuf
    \/ DecodeBothV0
    \/ DecodeBothV1
    \/ DecodeBothV2
    \/ DecodeBothV2Pbuf

SpecReuse == InitReuse /\ [][NextReuse]_vars

(***************************************************************************)
(* Specification: an envelope is constructed; its version and its message   *)
(* are set, and it marshals its message and unmarshals frames.              *)
(***************************************************************************)
MaxEnvCalls == 3

\* the values of secoapcore.Ver (int8) and of uint8 tried as versions
EnvVersions == {-128, -1, 0, 1, 2, 3, 127}
EnvVersionsV1Only == {0, 1, 2, 255}

\* the messages handed to SetMessage: nil, a fresh one, one with fields set
EnvMessages ==
    {<<>>, <<MessageNewMessage>>,
     <<MessageSetMessage(MessageNewMessage,
                         Message(<<7>>, <<Option(URIPath, StrValue(<<97>>))>>, <<104>>,
                                 Confirmable, 4660, GET, 2, 5))>>}

InitEnvelope ==
    /\ CodecIdle
    /\ op = "init"
    /\ u32 = NoUint32 /\ second = NoSecond /\ pool = NoPool /\ ids = NoMID /\ optc = NoOptc
    /\ \/ \E ver \in EnvVersions : env = NewSecoap(ver)
       \/ \E ver \in EnvVersionsV1Only :
             /\ NewSecoapV1Only(ver) # <<>>
             /\ env = NewSecoapV1Only(ver)[1]

\* what a call on the envelope leaves alone
restEnvelope == <<codecVars, op, u32, second, pool, ids, optc>>

EnvCall(s) ==
    /\ env.calls < MaxEnvCalls
    /\ env' = [s EXCEPT !.calls = env.calls + 1]
    /\ UNCHANGED restEnvelope

\* Secoap.SetVersion, which only the first copy has
CallSetVersion ==
    /\ env.kind = "full"
    /\ \E ver \in EnvVersions : EnvCall([env EXCEPT !.Version = ver, !.last = "SetVersion"])

\* an assignment to the exported field Version of the second copy
AssignVersion ==
    /\ env.kind = "v1only"
    /\ \E ver \in EnvVersionsV1Only :
          EnvCall([env EXCEPT !.Version = ver, !.last = "Version"])

\* Secoap.SetMessage
CallEnvSetMessage ==
    \E m \in EnvMessages : EnvCall([env EXCEPT !.Message = m, !.last = "SetMessage"])

CallSecoapMarshal == EnvCall(SecoapMarshal(env, 0))

CallSecoapUnmarshal == \E f \in ReuseFrames : EnvCall(SecoapUnmarshal(env, f, 0))

NextEnvelope ==
    \/ CallSetVersion
    \/ AssignVersion
    \/ CallEnvSetMessage
    \/ CallSecoapMarshal
    \/ CallSecoapUnmarshal

SpecEnvelope == InitEnvelope /\ [][NextEnvelope]_vars

(***************************************************************************)
(* Specification: goroutines call GetMID concurrently.  A call is two       *)
(* steps: the atomic add, which yields the new value of the counter, and    *)
(* the return of its low 16 bits.  ids.order lists the values in the order  *)
(* of the adds, ids.got[p] what caller p was returned.                      *)
(***************************************************************************)
NumCallers == 2
MaxMIDCalls == 2

Callers == 1..NumCallers

\* the counter when the callers start: msgID is uint32(RandMID()) at program
\* start, and any uint32 after the calls made since
StartCounters == {<<0, 0>>, <<0, 4660>>, <<0, 65534>>, <<0, 65535>>, <<1, 65535>>,
                  <<65535, 65534>>, <<65535, 65535>>}

InitMID ==
    /\ CodecIdle
    /\ op = "init"
    /\ u32 = NoUint32 /\ second = NoSecond /\ pool = NoPool /\ env = NoEnv /\ optc = NoOptc
    /\ \E c \in StartCounters :
          ids = [msgID |-> c, start |-> c,
                 pc |-> [p \in Callers |-> "idle"],
                 added |-> [p \in Callers |-> <<0, 0>>],
                 got |-> [p \in Callers |-> <<>>],
                 order |-> <<>>]

\* what a call of GetMID leaves alone
restMID == <<codecVars, op, u32, second, pool, env, optc>>

\* atomic.AddUint32(&msgID, 1) of caller p
GetMIDAdd(p) ==
    /\ ids.pc[p] = "idle"
    /\ Len(ids.got[p]) < MaxMIDCalls
    /\ LET add(v) ==
               ids' = [ids EXCEPT !.msgID = v, !.added[p] = v, !.pc[p] = "added",
                                  !.order = Append(@, LowUint16(v))]
       IN  add(AddUint32(ids.msgID, 1))
    /\ UNCHANGED restMID

\* return int32(uint16(...)) of caller p
GetMIDReturn(p) ==
    /\ ids.pc[p] = "added"
    /\ ids' = [ids EXCEPT !.got[p] = Append(@, LowUint16(ids.added[p])), !.pc[p] = "idle"]
    /\ UNCHANGED restMID

NextMID ==
    \/ \E p \in Callers : GetMIDAdd(p)
    \/ \E p \in Callers : GetMIDReturn(p)

SpecMID == InitMID /\ [][NextMID]_vars

(***************************************************************************)
(* Specification: a pooled message is constructed, its setters are called,  *)
(* it is marshalled and unmarshalled, and it is reset.                      *)
(***************************************************************************)
MaxPoolCalls == 3

\* a V1 frame longer than ScratchLimit: header, 0xFF and a payload of zeros
LongFrame == <<64, 1, 0, 0, 255>> \o [i \in 1..ScratchLimit |-> 0]

\* an option value longer than the value buffer
LongValue == [i \in 1..(valueBufferSize + 1) |-> 7]

\* the (decoder, data) arguments of UnmarshalWithDecoder: a frame of each
\* version with its coder, a frame with another coder, the long frame
PoolDecodes ==
    {<<"v0", WithCrcLE(<<1, 35, 0, 0, 104>>, <<104>>)>>,
     <<"v1", <<65, 1, 18, 52, 7, 177, 97, 255, 104>>>>,
     <<"v2", Seal(WithCrc(<<133, 69, 0, 0, 0, 9, 3, 0, 7, 177, 98, 255, 104>>, <<104>>))>>,
     <<"v0", <<65, 1, 18, 52, 7, 177, 97, 255, 104>>>>,
     <<"v1", LongFrame>>}

\* the capacities append gives a new array: the length needed, or more
PoolNewCaps == {0, 2 * ScratchLimit}

\* the message handed to SetMessage
PoolMessage ==
    Message(<<7>>, <<Option(URIPath, StrValue(<<97>>))>>, <<104>>,
            Confirmable, 4660, GET, 2, 5)

\* a message whose options vector is full: Options{URIPath "a"}
TightMessage == [PoolMessage EXCEPT !.OptsCap = 1]

\* a message with no options: Opts is nil, its capacity 0
BareMessage ==
    [NewMessage EXCEPT !.OptsCap = 0, !.Type = Confirmable, !.MessageID = 4660,
                       !.Code = GET]

\* the calls of setters, with their arguments
PoolSetters(r) ==
    {<<"SetVersion", MessageSetVersion(r, Version2)>>,
     <<"SetMessageID", MessageSetMessageID(r, 4660)>>,
     <<"SetType", MessageSetType(r, Confirmable)>>,
     <<"SetEncoderID", MessageSetEncoderID(r, 5)>>,
     <<"SetEncoderType", MessageSetEncoderType(r, 3)>>,
     <<"SetCode", MessageSetCode(r, GET)>>,
     <<"SetToken", MessageSetToken(r, <<7>>, FALSE)>>,
     <<"SetBody", MessageSetBody(r, NewReader(<<104>>))>>,
     <<"AddOptionBytes", MessageAddOptionBytes(r, ETag, <<1, 2>>)>>,
     <<"AddOptionBytes", MessageAddOptionBytes(r, ETag, LongValue)>>,
     <<"SetMessage", MessageSetMessage(r, PoolMessage)>>,
     <<"SetMessage", MessageSetMessage(r, TightMessage)>>,
     <<"SetMessage", MessageSetMessage(r, BareMessage)>>}

InitPool ==
    /\ CodecIdle
    /\ op = "init"
    /\ u32 = NoUint32 /\ second = NoSecond /\ env = NoEnv /\ ids = NoMID /\ optc = NoOptc
    /\ pool = NoPool

\* what a call on the pooled message leaves alone
restPool == <<codecVars, op, u32, second, env, ids, optc>>

\* a call that does not return is the last one
PoolReturn(name, r, n, err, out, coder) ==
    /\ pool.calls < MaxPoolCalls
    /\ pool.err # "hang"
    /\ pool' = [r |-> r, calls |-> pool.calls + 1, last |-> name, n |-> n, err |-> err,
                out |-> out, coder |-> coder, was |-> NoWas]
    /\ UNCHANGED restPool

PoolCall(name, r, n, err) == PoolReturn(name, r, n, err, <<>>, "nil")

CallSetter == \E c \in PoolSetters(pool.r) : PoolCall(c[1], c[2], 0, "nil")

\* a body longer than a scratch buffer is marshalled by the V1 coder only
CallMarshalWithEncoder ==
    \E enc \in {"v0", "v1", "v2"}, newcap \in PoolNewCaps :
        /\ Len(ReadBody(pool.r)) <= ScratchSize \/ enc = "v1"
        /\ LET ret(m) == PoolReturn("MarshalWithEncoder", m.r, Len(m.out), m.err, m.out, enc)
           IN  ret(MarshalWithEncoder(pool.r, enc, newcap))

CallUnmarshalWithDecoder ==
    \E d \in PoolDecodes, newcap \in PoolNewCaps :
        LET ret(m) == PoolCall("UnmarshalWithDecoder", m.r, m.n, m.err)
        IN  ret(UnmarshalWithDecoder(pool.r, d[1], d[2], newcap))

CallReset == PoolCall("Reset", MessageReset(pool.r), 0, "nil")

NextPool ==
    \/ CallSetter
    \/ CallMarshalWithEncoder
    \/ CallUnmarshalWithDecoder
    \/ CallReset

SpecPool == InitPool /\ [][NextPool]_vars

(***************************************************************************)
(* Specification: a pooled message gets a message and a body, the body is   *)
(* measured and read, and the message is marshalled.                        *)
(***************************************************************************)
MaxBodyCalls == 4

\* a body of nine bytes, and a payload of sixteen
ShortBody == <<11, 12, 13, 14, 15, 16, 17, 18, 19>>
LongPayload == [i \in 1..16 |-> 100 + i]

\* the message handed to SetMessage, whose payload becomes the body
BodyMessage == [PoolMessage EXCEPT !.Payload = LongPayload]

\* the readers handed to SetBody: at the start, inside, at the end, empty
BodyReaders ==
    {NewReader(ShortBody), SeekStart(NewReader(ShortBody), 3),
     SeekEnd(NewReader(ShortBody)), NewReader(<<>>)}

InitBody == InitPool

BodyCall(name, r, n, err, out, coder) ==
    /\ pool.calls < MaxBodyCalls
    /\ pool' = [r |-> r, calls |-> pool.calls + 1, last |-> name, n |-> n, err |-> err,
                out |-> out, coder |-> coder,
                was |-> [last |-> pool.last, err |-> pool.err, coder |-> pool.coder,
                         out |-> pool.out, pos |-> pool.r.body.pos]]
    /\ UNCHANGED restPool

CallBodySetMessage ==
    BodyCall("SetMessage", MessageSetMessage(pool.r, BodyMessage), 0, "nil", <<>>, "nil")

CallSetBody ==
    \E s \in BodyReaders :
        BodyCall("SetBody", MessageSetBody(pool.r, s), 0, "nil", <<>>, "nil")

CallBodySize ==
    LET ret(sz) ==
            BodyCall("BodySize", [pool.r EXCEPT !.body = sz.body], sz.size, "nil", <<>>, "nil")
    IN  ret(BodySize(pool.r))

CallReadBody ==
    BodyCall("ReadBody", [pool.r EXCEPT !.body = BodyAfterRead(pool.r)],
             Len(ReadBody(pool.r)), "nil", ReadBody(pool.r), "nil")

CallToSecoapCoreMessage ==
    BodyCall("ToSecoapCoreMessage", [pool.r EXCEPT !.body = BodyAfterRead(pool.r)],
             Len(ReadBody(pool.r)), "nil", toMessage(pool.r).Payload, "nil")

CallBodyMarshal ==
    \E enc \in {"v0", "v1", "v2"} :
        LET ret(m) == BodyCall("MarshalWithEncoder", m.r, Len(m.out), m.err, m.out, enc)
        IN  ret(MarshalWithEncoder(pool.r, enc, 0))

CallBodyReset == BodyCall("Reset", MessageReset(pool.r), 0, "nil", <<>>, "nil")

NextBody ==
    \/ CallBodySetMessage
    \/ CallSetBody
    \/ CallBodySize
    \/ CallReadBody
    \/ CallToSecoapCoreMessage
    \/ CallBodyMarshal
    \/ CallBodyReset

SpecBody == InitBody /\ [][NextBody]_vars

(***************************************************************************)
(* Specification: option values are added to a pooled message.  The memory  *)
(* is a heap of byte arrays; a slice is [arr, off, len, cap], the window    *)
(* off..off+len of the array arr with the capacity cap; arr = 0 is the      *)
(* array of the caller's argument.  An option is [ID, Value, given]: Value  *)
(* is the slice stored, given the bytes that were passed for it.            *)
(***************************************************************************)
MaxValueCalls == 3

\* what append may allocate beyond the length needed
ValueSlack == 2

\* the lengths of the values passed: none, short, longer than the buffer
ValueLens == {0, 2, valueBufferSize + 1}

\* the value passed by the call number c
CallerValue(len, c) == [i \in 1..len |-> 10 + c]

\* s[n:] that does not advance
SliceFromStuck(s, n) == s

\* s[n:]
SliceFrom(s, n) == [s EXCEPT !.off = @ + n, !.len = @ - n, !.cap = @ - n]

\* s[:n]
SliceTo(s, n) == [s EXCEPT !.len = n]

\* the bytes of the slice s
Deref(heap, arg, s) ==
    IF s.arr = 0 THEN SubSeq(arg, s.off + 1, s.off + s.len)
    ELSE SubSeq(heap[s.arr], s.off + 1, s.off + s.len)

\* append(s, make([]byte, k)...): in place within the capacity, else in a
\* new array of the capacity newcap >= len(s) + k.  Returns [heap, s].
AppendMake(heap, s, k, newcap) ==
    IF s.len + k <= s.cap
    THEN [heap |-> [heap EXCEPT ![s.arr] = WriteAt(@, s.off + s.len, [i \in 1..k |-> 0])],
          s |-> [s EXCEPT !.len = @ + k]]
    ELSE [heap |-> Append(heap, SubSeq(heap[s.arr], s.off + 1, s.off + s.len)
                                \o [i \in 1..(newcap - s.len) |-> 0]),
          s |-> [arr |-> Len(heap) + 1, off |-> 0, len |-> s.len + k, cap |-> newcap]]

\* Options.Add: the option goes behind the options with an ID up to its own
OptionsAdd(opts, o) ==
    LET before == SelectSeq(opts, LAMBDA x : x.ID <= o.ID)
        after == SelectSeq(opts, LAMBDA x : x.ID > o.ID)
    IN  before \o <<o>> \o after

\* Options.Set: the option replaces the options with its ID
OptionsSet(opts, o) == OptionsAdd(SelectSeq(opts, LAMBDA x : x.ID # o.ID), o)

\* the original value buffer: array 1 of the heap
OrigValueSlice == [arr |-> 1, off |-> 0, len |-> valueBufferSize, cap |-> valueBufferSize]

\* the value buffer and the options of message.NewMessage
NewValues ==
    [heap |-> <<[i \in 1..valueBufferSize |-> 0]>>, valueBuffer |-> OrigValueSlice,
     Opts |-> <<>>, arg |-> <<>>, calls |-> 0, last |-> "none"]

\* message.Message.AddOptionBytes and SetOptionBytes, which differ in the
\* call of Options.Add or Options.Set: value is the caller's slice
StoreOptionBytes(v, opt, value, newcap, set) ==
    LET store(h, vb, n) ==
            [v EXCEPT !.heap = [h EXCEPT ![vb.arr] = WriteAt(@, vb.off, value)],
                      !.Opts = IF set
                               THEN OptionsSet(@, [ID |-> opt, Value |-> SliceTo(vb, n),
                                                   given |-> value])
                               ELSE OptionsAdd(@, [ID |-> opt, Value |-> SliceTo(vb, n),
                                                   given |-> value]),
                      !.valueBuffer = SliceFrom(vb, n),
                      !.arg = value]
        grown(g) == store(g.heap, g.s, Len(value))
    IN  IF v.valueBuffer.len < Len(value)
        THEN grown(AppendMake(v.heap, v.valueBuffer, Len(value) - v.valueBuffer.len, newcap))
        ELSE store(v.heap, v.valueBuffer, Len(value))

\* the part of message.Message.Reset that concerns the option values
ResetValues(v) == [v EXCEPT !.Opts = <<>>, !.valueBuffer = OrigValueSlice]

InitValues ==
    /\ CodecIdle
    /\ op = "init"
    /\ u32 = NoUint32 /\ second = NoSecond /\ env = NoEnv /\ ids = NoMID /\ optc = NoOptc
    /\ pool = NewValues

ValuesCall(name, v) ==
    /\ pool.calls < MaxValueCalls
    /\ pool' = [v EXCEPT !.calls = @ + 1, !.last = name]
    /\ UNCHANGED restPool

CallAddOptionBytes ==
    \E opt \in {IfMatch, ETag}, len \in ValueLens, slack \in {0, ValueSlack} :
        ValuesCall("AddOptionBytes",
                   StoreOptionBytes(pool, opt, CallerValue(len, pool.calls), len + slack,
                                    FALSE))

CallSetOptionBytes ==
    \E len \in ValueLens, slack \in {0, ValueSlack} :
        ValuesCall("SetOptionBytes",
                   StoreOptionBytes(pool, ETag, CallerValue(len, pool.calls), len + slack,
                                    TRUE))

\* the caller changes the slice it has passed
CallerWrites ==
    /\ pool.last \in {"AddOptionBytes", "SetOptionBytes"}
    /\ pool' = [pool EXCEPT !.arg = [i \in 1..Len(@) |-> 238], !.last = "write"]
    /\ UNCHANGED restPool

CallValuesReset == ValuesCall("Reset", ResetValues(pool))

NextValues ==
    \/ CallAddOptionBytes
    \/ CallSetOptionBytes
    \/ CallerWrites
    \/ CallValuesReset

SpecValues == InitValues /\ [][NextValues]_vars

(***************************************************************************)
(* Specification: the header fields of a pooled message are set and         *)
(* upserted, with valid and with invalid values.                            *)
(***************************************************************************)
MaxUpsertCalls == 3

\* a valid and an invalid value of every field (Ver is an int8)
VerValues == {Version1, 4, -1}
MessageIDValues == {4660, 65536}
TypeValues == {Confirmable, 256}
EncoderIDValues == {5, 16}
EncoderTypeValues == {3, 16}

InitUpsert == InitPool

\* a call with the argument arg
UpsertCall(name, r, arg) ==
    /\ pool.calls < MaxUpsertCalls
    /\ pool' = [pool EXCEPT !.r = r, !.calls = @ + 1, !.last = name, !.n = arg]
    /\ UNCHANGED restPool

CallSetVersionField ==
    \E ver \in VerValues : UpsertCall("SetVersion", MessageSetVersion(pool.r, ver), ver)

CallSetMessageID ==
    \E mid \in MessageIDValues :
        UpsertCall("SetMessageID", MessageSetMessageID(pool.r, mid), mid)

CallSetType ==
    \E typ \in TypeValues : UpsertCall("SetType", MessageSetType(pool.r, typ), typ)

CallSetEncoderID ==
    \E eid \in EncoderIDValues :
        UpsertCall("SetEncoderID", MessageSetEncoderID(pool.r, eid), eid)

CallSetEncoderType ==
    \E etp \in EncoderTypeValues :
        UpsertCall("SetEncoderType", MessageSetEncoderType(pool.r, etp), etp)

CallUpsertVersion ==
    \E ver \in VerValues :
        UpsertCall("UpsertVersion", MessageUpsertVersion(pool.r, ver), ver)

CallUpsertMessageID ==
    \E mid \in MessageIDValues :
        UpsertCall("UpsertMessageID", MessageUpsertMessageID(pool.r, mid), mid)

CallUpsertType ==
    \E typ \in TypeValues : UpsertCall("UpsertType", MessageUpsertType(pool.r, typ), typ)

CallUpsertEncoderID ==
    \E eid \in EncoderIDValues :
        UpsertCall("UpsertEncoderID", MessageUpsertEncoderID(pool.r, eid), eid)

CallUpsertEncoderType ==
    \E etp \in EncoderTypeValues :
        UpsertCall("UpsertEncoderType", MessageUpsertEncoderType(pool.r, etp), etp)

CallUpsertReset ==
    /\ pool.calls < MaxUpsertCalls
    /\ pool' = [pool EXCEPT !.r = MessageReset(@), !.calls = @ + 1, !.last = "Reset", !.n = 0]
    /\ UNCHANGED restPool

NextUpsert ==
    \/ CallSetVersionField
    \/ CallSetMessageID
    \/ CallSetType
    \/ CallSetEncoderID
    \/ CallSetEncoderType
    \/ CallUpsertVersion
    \/ CallUpsertMessageID
    \/ CallUpsertType
    \/ CallUpsertEncoderID
    \/ CallUpsertEncoderType
    \/ CallUpsertReset

SpecUpsert == InitUpsert /\ [][NextUpsert]_vars

(***************************************************************************)
(* Specification: an option delta or length v is split by extendOpt, its    *)
(* extension is written by marshalOptionHeaderExt and read by parseExtOpt.  *)
(***************************************************************************)
MaxExtBuf == 3

\* deltas and lengths on both sides of every boundary of the encoding
ExtValues == {0, 1, 12, 13, 14, 15, 255, 267, 268, 269, 270, 524, 525, 4660,
              65535, 65803, 65804}

\* everything outside a call on a single option
restOptc == <<codecVars, op, u32, second, pool, env, ids>>

OptcIdle ==
    /\ CodecIdle
    /\ op = "init"
    /\ u32 = NoUint32 /\ second = NoSecond /\ pool = NoPool /\ env = NoEnv /\ ids = NoMID

InitExtend ==
    /\ OptcIdle
    /\ \E v \in ExtValues, k \in 0..MaxExtBuf, fill \in BufFill :
          optc = [NoOptc EXCEPT !.v = v, !.buf = FreshBuf(k, fill), !.fill = fill]

CallExtendOpt ==
    /\ optc.call = "none"
    /\ LET ret(r) == optc' = [optc EXCEPT !.call = "extendOpt", !.opt = r[1], !.ext = r[2]]
       IN  ret(extendOpt(optc.v))
    /\ UNCHANGED restOptc

CallMarshalOptionHeaderExt ==
    /\ optc.call = "extendOpt"
    /\ LET ret(r) ==
               optc' = [optc EXCEPT !.call = "marshalOptionHeaderExt",
                                    !.n = r.n, !.err = r.err, !.buf = r.buf]
       IN  ret(marshalOptionHeaderExt(optc.buf, optc.opt, optc.ext))
    /\ UNCHANGED restOptc

\* parseExtOpt of the nibble and the buffer as written, whole (all) or cut
\* behind the extension
CallParseExtOpt ==
    /\ optc.call = "marshalOptionHeaderExt"
    /\ \E all \in BOOLEAN :
          optc' = [optc EXCEPT
                      !.call = IF all THEN "parseExtOptAll" ELSE "parseExtOpt",
                      !.ret = <<parseExtOpt(IF all \/ optc.err # "nil" THEN optc.buf
                                            ELSE Take(optc.buf, optc.n), optc.opt)>>]
    /\ UNCHANGED restOptc

NextExtend ==
    \/ CallExtendOpt
    \/ CallMarshalOptionHeaderExt
    \/ CallParseExtOpt

SpecExtend == InitExtend /\ [][NextExtend]_vars

(***************************************************************************)
(* Specification: Option.Marshal writes one option behind the option with   *)
(* the ID previousID into buffers of every length up to its full encoding   *)
(* and beyond.                                                             *)
(***************************************************************************)
MaxSlack == 1

\* a string of n bytes
StringOf(n) == [i \in 1..n |-> 97]

\* options whose value lengths lie on both sides of the extension
\* boundaries, with values of every kind that ToBytes handles
MarshalOptions ==
    {Option(URIPath, StrValue(StringOf(n))) : n \in {0, 1, 12, 13, 14, 268, 269, 270}}
    \cup {Option(ETag, BytesValue(<<1, 2, 3>>)),
          Option(ContentFormat, MediaValue(50)),
          Option(MaxAge, UintValue(0)),
          Option(MaxAge, UintValue(65536)),
          Option(258, UintValue(255)),
          Option(2049, StrValue(<<98>>)),
          Option(2049, StrValue(StringOf(270)))}

\* the IDs of the option before: the same ID, and IDs at every distance
PreviousIDs(o) ==
    {p \in {0, o.ID, o.ID - 12, o.ID - 13, o.ID - 268, o.ID - 269, o.ID - 270} : p >= 0}

\* the length of the full encoding of o behind previousID
FullLen(o, previousID) == OptionMarshal(o, <<>>, previousID).n

InitOption ==
    /\ OptcIdle
    /\ \E o \in MarshalOptions, fill \in BufFill :
          \E p \in PreviousIDs(o) :
             \E k \in 0..(FullLen(o, p) + MaxSlack) :
                optc = [NoOptc EXCEPT !.o = o, !.prev = p, !.buf = FreshBuf(k, fill),
                                      !.fill = fill]

CallOptionMarshal ==
    /\ optc.call = "none"
    /\ LET ret(r) ==
               optc' = [optc EXCEPT !.call = "Marshal", !.n = r.n, !.err = r.err,
                                    !.ret = <<optc.buf>>, !.buf = r.buf]
       IN  ret(OptionMarshal(optc.o, optc.buf, optc.prev))
    /\ UNCHANGED restOptc

NextOption == CallOptionMarshal

SpecOption == InitOption /\ [][NextOption]_vars

(***************************************************************************)
(* Specification: the value of one option is decoded from its bytes, by     *)
(* Option.UnmarshalValue or by parseOptionValue of the legacy decoder.      *)
(***************************************************************************)
MaxValueLen == 3

ValueByteSet == {0, 1, 255}

RECURSIVE ValueBufs(_)
ValueBufs(n) ==
    IF n = 0 THEN {<<>>}
    ELSE ValueBufs(n - 1)
         \cup {Append(b, x) : b \in {c \in ValueBufs(n - 1) : Len(c) = n - 1},
                              x \in ValueByteSet}

ValueOptionIDs == UintOptionIDs \cup {URIPath, ETag, IfNoneMatch, 9}

InitValue ==
    /\ OptcIdle
    /\ \E id \in ValueOptionIDs, b \in ValueBufs(MaxValueLen) :
          optc = [NoOptc EXCEPT !.o = Option(id, NilValue), !.buf = b]

CallUnmarshalValue ==
    /\ optc.call = "none"
    /\ LET ret(r) ==
               optc' = [optc EXCEPT !.call = "UnmarshalValue", !.o = r.o,
                                    !.n = r.proc, !.err = r.err]
       IN  ret(UnmarshalValue(optc.o, optc.buf))
    /\ UNCHANGED restOptc

CallParseOptionValue ==
    /\ optc.call = "none"
    /\ optc' = [optc EXCEPT !.call = "parseOptionValue",
                            !.o = [@ EXCEPT !.Value = parseOptionValue(optc.o.ID, optc.buf)]]
    /\ UNCHANGED restOptc

NextValue == CallUnmarshalValue \/ CallParseOptionValue

SpecValue == InitValue /\ [][NextValue]_vars

(***************************************************************************)
(* Specification: SetPathString is called with a string of '/' and letters  *)
(* on a message that has a path.                                            *)
(***************************************************************************)
MaxPathLen == 4

\* '/', 'a', 'b'
PathBytes == {47, 97, 98}

RECURSIVE PathInputs(_)
PathInputs(n) ==
    IF n = 0 THEN {<<>>}
    ELSE PathInputs(n - 1)
         \cup {Append(p, x) : p \in {q \in PathInputs(n - 1) : Len(q) = n - 1},
                              x \in PathBytes}

\* the message of the call: a GET with an ETag and the path "x"
PathMessage ==
    Message(<<>>, <<Option(ETag, BytesValue(<<1>>)), Option(URIPath, StrValue(<<120>>))>>,
            <<>>, Confirmable, 4660, GET, 0, 0)

InitPath ==
    /\ OptcIdle
    /\ \E s \in PathInputs(MaxPathLen) : optc = [NoOptc EXCEPT !.buf = s]

\* ret is the path of the message after the call
CallPathString ==
    /\ optc.call = "none"
    /\ LET ret(r) ==
               optc' = [optc EXCEPT !.call = "SetPathString",
                                    !.err = IF r.panic THEN "panic" ELSE "nil",
                                    !.ret = Path(r.m).rv,
                                    !.n = Len(r.m.Opts)]
       IN  ret(SetPathString(PathMessage, optc.buf))
    /\ UNCHANGED restOptc

NextPath == CallPathString

SpecPath == InitPath /\ [][NextPath]_vars

\* the frame as it left the encoder or arrived, before any corruption
Pristine == IF encRes.err = "nil" THEN Take(bufBack, encRes.n) ELSE <<>>

(***************************************************************************)
(* Properties                                                              *)
(***************************************************************************)
\* the encoder named codec has run on msg
Ran(codec) == op # "init" /\ encRes.codec = codec

\* the buffer as the encoder received it
Fresh == FreshBuf(Len(bufBack), encRes.fill)

\* no byte of the buffer behind the first n was written
UntouchedFrom(n) == \A i \in (n + 1)..Len(bufBack) : bufBack[i] = encRes.fill

V2Codecs == {"v2", "v2pbuf"}

HeaderLen(codec) == IF codec \in V2Codecs THEN 8 ELSE 4

SizeOf(codec) ==
    IF codec = "v0" THEN V0Size(msg)
    ELSE IF codec = "v1" THEN V1Size(msg)
    ELSE V2Size(msg)

\* msg passes the field validation of the codec and has a size
Accepted(codec) ==
    /\ ValidateType(msg.Type)
    /\ codec # "v0" => ValidateMID(msg.MessageID) /\ Len(msg.Token) <= MaxTokenSize
    /\ codec # "v1" => ValidateEID(msg.EncoderID) /\ ValidateETP(msg.EncoderType)

\* the encoder returned (size, nil) and its frame carries RSUM8 zero, with the
\* checksum in byte 7, the payload at the end of the frame and nothing
\* written behind the frame
Rsum8AtByte7(codec) ==
    (Ran(codec) /\ Accepted(codec) /\ bufLen >= V2Size(msg).n)
    => /\ encRes.err = "nil"
       /\ encRes.n = V2Size(msg).n
       /\ RSUM8(Pristine) = 0
       /\ Pristine[8] = RSUM8(WriteAt(Pristine, 7, <<0>>))
       /\ Drop(Pristine, encRes.n - Len(msg.Payload)) = msg.Payload
       /\ UntouchedFrom(encRes.n)

\* C1: for every message the V2 Encode accepts and every buffer at least
\* Size(m) long, Encode returns (size, nil) and the size bytes it writes have
\* RSUM8 zero, the checksum stored at byte 7 of the frame and at no other
\* offset.  Stated of the Encode of coder/coderv2/coder.go.
C1_Rsum8AtByte7 == Rsum8AtByte7("v2")

\* the same property of the Encode of the second copy of the file
Rsum8AtByte7Pbuf == Rsum8AtByte7("v2pbuf")

\* Encode into a buffer shorter than the size returns (size, ErrTooSmall) and
\* writes nothing; into a buffer of exactly the size it returns (size, nil)
\* and writes nothing behind the frame
SizeProbe(codec) ==
    (Ran(codec) /\ Accepted(codec))
    => /\ bufLen < SizeOf(codec).n
            => /\ encRes.err = "ErrTooSmall"
               /\ encRes.n = SizeOf(codec).n
               /\ bufBack = Fresh
       /\ bufLen = SizeOf(codec).n
            => /\ encRes.err = "nil"
               /\ encRes.n = SizeOf(codec).n
               /\ UntouchedFrom(encRes.n)

\* C2: size probe.  For V0, V1 and V2 and every message that passes the
\* field validation, Encode into a shorter buffer returns (Size(m),
\* ErrTooSmall) and writes no byte, and Encode into a buffer of exactly
\* Size(m) bytes returns (Size(m), nil) and writes exactly that many bytes.
C2_SizeProbe == SizeProbe("v0") /\ SizeProbe("v1") /\ SizeProbe("v2")

\* the size probe of V0, V1 and the second copy of the V2 codec
SizeProbePbuf == SizeProbe("v0") /\ SizeProbe("v1") /\ SizeProbe("v2pbuf")

\* msg is an input of the round trip: token of 0..8 bytes, type 0..3, valid
\* message ID and, for V2, encoder fields
RoundTripInput(codec) == Accepted(codec) /\ msg.Type \in 0..3

\* Encode of a round-trip input into a large enough buffer succeeds, and
\* Decode of the frame succeeds and restores the fields
RoundTrip(enc, dec) ==
    /\ (Ran(enc) /\ RoundTripInput(enc) /\ bufLen >= SizeOf(enc).n) => encRes.err = "nil"
    /\ (op = "decode" /\ encRes.codec = enc /\ decRes.codec = dec
            /\ RoundTripInput(enc) /\ frame = Pristine)
       => /\ decRes.err = "nil"
          /\ decRes.n = Len(frame)
          /\ target.Token = msg.Token
          /\ target.Code = msg.Code
          /\ target.Type = msg.Type
          /\ target.MessageID = msg.MessageID
          /\ enc \in V2Codecs => /\ target.EncoderID = msg.EncoderID
                                 /\ target.EncoderType = msg.EncoderType
          /\ target.Payload = msg.Payload
          /\ target.Opts = SortStable(msg.Opts)

\* C3: round trip for V1 and V2.  For every message with a token of 0..8
\* bytes, type 0..3, MID 0..65535, (V2) EID and ETP 0..15 and registered
\* options of legal lengths, Decode(Encode(M)) succeeds and yields the same
\* token, code, type, MID, (V2) EID/ETP, payload and the options in stable
\* ID order; an empty payload decodes to an empty payload.
C3_RoundTrip ==
    /\ RoundTrip("v1", "v1")
    /\ RoundTrip("v2", "v2")
    /\ RoundTrip("legacy", "legacy")

\* the round trip of V1, of the legacy V1 path and of the second copy of V2
RoundTripPbuf ==
    /\ RoundTrip("v1", "v1")
    /\ RoundTrip("v1", "legacy")
    /\ RoundTrip("legacy", "v1")
    /\ RoundTrip("legacy", "legacy")
    /\ RoundTrip("v2pbuf", "v2pbuf")
    /\ RoundTrip("v2pbuf", "v2")

\* C4: round trip for V0.  For every message with type 0..3, EID and ETP
\* 0..15 and any payload, the V0 frame is the type byte, the EID/ETP byte, the
\* CRC16-MODBUS of the payload low byte first in bytes 2..3 and the payload
\* (token and options do not appear), and V0 Decode of it succeeds and
\* restores payload, type, EID, ETP and the CRC16.
C4_V0RoundTrip ==
    /\ (Ran("v0") /\ RoundTripInput("v0") /\ bufLen >= 4 + Len(msg.Payload))
       => /\ encRes.err = "nil"
          /\ Pristine = <<msg.Type, (msg.EncoderID * 16) + msg.EncoderType,
                          CRC16Bytes(msg.Payload) % 256, CRC16Bytes(msg.Payload) \div 256>>
                        \o msg.Payload
    /\ (op = "decode" /\ encRes.codec = "v0" /\ decRes.codec = "v0"
            /\ RoundTripInput("v0") /\ frame = Pristine)
       => /\ decRes.err = "nil"
          /\ decRes.n = Len(frame)
          /\ target.Payload = msg.Payload
          /\ target.Type = msg.Type
          /\ target.EncoderID = msg.EncoderID
          /\ target.EncoderType = msg.EncoderType
          /\ target.Crc16 = CRC16Bytes(msg.Payload)
          /\ target.Token = <<>>
          /\ target.Opts = <<>>

\* a message with token, options and payload went through V0 and came back
C4_V0Decoded ==
    /\ op = "decode" /\ encRes.codec = "v0" /\ decRes.codec = "v0"
    /\ frame = Pristine /\ decRes.err = "nil"
    /\ Len(msg.Token) > 0 /\ msg.Opts # <<>> /\ Len(msg.Payload) > 1
    /\ target.Payload = msg.Payload
    /\ frame[3] # frame[4]

\* the single bits of a byte
BitMasks == {1, 2, 4, 8, 16, 32, 64, 128}

\* the frame has the length of the pristine frame and differs from it in
\* byte i (0-based) only
ChangedAt(i) ==
    /\ op \in {"corrupt", "decode"}
    /\ Len(frame) = Len(Pristine)
    /\ i < Len(frame)
    /\ frame[i + 1] # Pristine[i + 1]
    /\ \A j \in 1..Len(frame) : j # i + 1 => frame[j] = Pristine[j]

\* exactly one bit of the frame was flipped in transit
OneBitFlipped ==
    \E i \in 0..(Len(frame) - 1) :
        ChangedAt(i) /\ BitXor(frame[i + 1], Pristine[i + 1]) \in BitMasks

\* C5: for every byte sequence F of at least 8 bytes with RSUM8(F) = 0,
\* flipping any single bit of F gives a sequence whose RSUM8 is not zero, and
\* V2 Decode of it returns ErrMessageInvalidRSUM8.
C5_BitFlipBreaksRsum8 ==
    (Len(Pristine) >= 8 /\ RSUM8(Pristine) = 0 /\ OneBitFlipped)
    => /\ RSUM8(frame) # 0
       /\ (op = "decode" /\ decRes.codec \in V2Codecs)
            => decRes.n = -1 /\ decRes.err = "ErrMessageInvalidRSUM8"

\* V2 Decode rejected a frame whose last byte had one bit flipped in transit
C5_FlippedAndRejected ==
    /\ op = "decode" /\ decRes.codec = "v2pbuf"
    /\ Len(Pristine) > 8 /\ RSUM8(Pristine) = 0
    /\ OneBitFlipped /\ ChangedAt(Len(frame) - 1)
    /\ decRes.err = "ErrMessageInvalidRSUM8"

\* one byte of the payload of the frame that enc produced for msg was
\* changed in transit, the header left as written
PayloadByteChanged(enc) ==
    /\ encRes.codec = enc /\ encRes.err = "nil" /\ Len(msg.Payload) > 0
    /\ \E i \in (Len(frame) - Len(msg.Payload))..(Len(frame) - 1) : ChangedAt(i)

\* V0 Decode of a V0 frame with one payload byte changed
V0CrcMismatch ==
    (op = "decode" /\ decRes.codec = "v0" /\ PayloadByteChanged("v0"))
    => decRes.n = -1 /\ decRes.err = "ErrInvalidRCRC16"

\* C6 as claimed: for V0 and for V2, changing one payload byte of a frame
\* produced by Encode with a non-empty payload, the header left as written,
\* makes Decode return ErrInvalidRCRC16.  The V2 frames are those of the
\* Encode that stores RSUM8 in byte 7 of the frame (the second copy).
C6_CrcMismatchAsClaimed ==
    /\ V0CrcMismatch
    /\ (op = "decode" /\ decRes.codec \in V2Codecs /\ PayloadByteChanged("v2pbuf"))
          => decRes.err = "ErrInvalidRCRC16"

\* C6 as amended: V0 Decode of the changed frame returns ErrInvalidRCRC16.
\* V2 Decode checks RSUM8 before CRC16: of a V2 frame that was written with
\* RSUM8 zero and had a payload byte changed it returns
\* ErrMessageInvalidRSUM8, and it returns ErrInvalidRCRC16 only for a frame
\* whose RSUM8 is zero as received.
C6_CrcMismatch ==
    /\ V0CrcMismatch
    /\ \A enc \in V2Codecs :
          (op = "decode" /\ decRes.codec \in V2Codecs /\ PayloadByteChanged(enc)
                /\ RSUM8(Pristine) = 0)
          => decRes.n = -1 /\ decRes.err = "ErrMessageInvalidRSUM8"
    /\ (op = "decode" /\ decRes.codec \in V2Codecs /\ decRes.err = "ErrInvalidRCRC16")
          => RSUM8(frame) = 0 /\ Len(frame) >= 8

\* V2 Decode met a changed payload byte in a frame written with RSUM8 zero
C6_PayloadChangedV2 ==
    /\ op = "decode" /\ decRes.codec = "v2pbuf" /\ PayloadByteChanged("v2pbuf")
    /\ RSUM8(Pristine) = 0 /\ Len(msg.Payload) > 1
    /\ decRes.err = "ErrMessageInvalidRSUM8"

\* V0 Decode met a changed payload byte
PayloadChangedV0 ==
    /\ op = "decode" /\ decRes.codec = "v0" /\ PayloadByteChanged("v0")
    /\ decRes.err = "ErrInvalidRCRC16" /\ Len(msg.Payload) > 1

\* V2 Decode met a frame with RSUM8 zero whose CRC16 is not that of its payload
CrcMismatchV2 ==
    /\ op = "decode" /\ decRes.codec \in V2Codecs
    /\ decRes.err = "ErrInvalidRCRC16"

\* the frame is long enough for the header of the decoder that ran and its
\* version bits are not the decoder's
WrongVersion(dec, n) ==
    /\ op = "decode" /\ decRes.codec = dec
    /\ Len(frame) >= HeaderLen(dec)
    /\ frame[1] \div 64 # n

\* C7 as claimed: Decode by the codec Vn of any frame of at least the
\* minimum header length (4 for V0/V1, 8 for V2) whose top two bits of byte 0
\* differ from n returns ErrMessageInvalidVersion.
C7_VersionMismatchAsClaimed ==
    /\ WrongVersion("v0", 0) => decRes.err = "ErrMessageInvalidVersion"
    /\ WrongVersion("v1", 1) => decRes.err = "ErrMessageInvalidVersion"
    /\ \A dec \in V2Codecs : WrongVersion(dec, 2) => decRes.err = "ErrMessageInvalidVersion"

\* C7 as amended: V0 and V1 as claimed; V2 Decode checks RSUM8 before the
\* version, so it returns ErrMessageInvalidVersion when RSUM8 of the frame is
\* zero and ErrMessageInvalidRSUM8 when it is not.
C7_VersionMismatch ==
    /\ WrongVersion("v0", 0) => decRes.n = -1 /\ decRes.err = "ErrMessageInvalidVersion"
    /\ WrongVersion("v1", 1) => decRes.n = -1 /\ decRes.err = "ErrMessageInvalidVersion"
    /\ \A dec \in V2Codecs :
          WrongVersion(dec, 2)
          => /\ decRes.n = -1
             /\ decRes.err = IF RSUM8(frame) = 0 THEN "ErrMessageInvalidVersion"
                             ELSE "ErrMessageInvalidRSUM8"

\* V2 Decode met a frame of another version whose RSUM8 is zero
C7_WrongVersionSealed ==
    /\ WrongVersion("v2", 2) /\ RSUM8(frame) = 0
    /\ decRes.err = "ErrMessageInvalidVersion"

\* the header fields the encoder validates before it calls Size
FieldsValid(codec) ==
    /\ ValidateMID(msg.MessageID) /\ ValidateType(msg.Type)
    /\ codec \in V2Codecs => ValidateEID(msg.EncoderID) /\ ValidateETP(msg.EncoderType)

TokenCodecs == {"v1", "v2", "v2pbuf"}

\* the TKL field of the frame as the decoder reads it
Tkl(dec) == IF dec = "v1" THEN frame[1] % 16 ELSE (frame[1] \div 4) % 16

\* the frame passes the checks the decoder makes before it reads TKL
PassesEarlier(dec) ==
    /\ Len(frame) >= HeaderLen(dec)
    /\ dec = "v1" => frame[1] \div 64 = 1
    /\ dec \in V2Codecs => RSUM8(frame) = 0 /\ frame[1] \div 64 = 2

\* Size of a message with a token of more than 8 bytes
TokenLenSize ==
    Len(msg.Token) > 8
    => /\ V1Size(msg) = [n |-> -1, err |-> "ErrInvalidTokenLen"]
       /\ V2Size(msg) = [n |-> -1, err |-> "ErrInvalidTokenLen"]

\* Decode of a frame that passes the earlier checks: TKL 9..15, TKL beyond
\* the bytes that remain after the header, TKL 0
TokenLenDecode ==
    \A dec \in TokenCodecs :
        (op = "decode" /\ decRes.codec = dec /\ PassesEarlier(dec))
        => /\ Tkl(dec) \in 9..15 => decRes.n = -1 /\ decRes.err = "ErrInvalidTokenLen"
           /\ (Tkl(dec) <= 8 /\ Tkl(dec) > Len(frame) - HeaderLen(dec))
                => decRes.n = -1 /\ decRes.err = "ErrMessageTruncated"
           /\ (Tkl(dec) = 0 /\ decRes.err = "nil")
                => target.TokenNil /\ target.Token = <<>>

\* C8 as claimed: V1 and V2 Size and Encode of a message whose token is
\* longer than 8 bytes return ErrInvalidTokenLen and write nothing; Decode of
\* a frame that passes the earlier checks returns ErrInvalidTokenLen for TKL
\* 9..15 and ErrMessageTruncated for a TKL beyond the remaining bytes; TKL 0
\* decodes to a nil token.
C8_TokenLenAsClaimed ==
    /\ TokenLenSize
    /\ \A codec \in TokenCodecs :
          (Ran(codec) /\ Len(msg.Token) > 8)
          => encRes.err = "ErrInvalidTokenLen" /\ bufBack = Fresh
    /\ TokenLenDecode

\* C8 as amended: Encode validates the header fields before the token, so it
\* returns ErrInvalidTokenLen for a long token when the fields are valid and
\* the validation error when they are not, writing nothing either way; the
\* rest as claimed.
C8_TokenLen ==
    /\ TokenLenSize
    /\ \A codec \in TokenCodecs :
          (Ran(codec) /\ Len(msg.Token) > 8)
          => /\ encRes.n = -1
             /\ bufBack = Fresh
             /\ FieldsValid(codec) => encRes.err = "ErrInvalidTokenLen"
             /\ ~FieldsValid(codec)
                  => encRes.err \in {"invalid MessageID", "invalid Type",
                                     "invalid EncoderID", "invalid EncoderType"}
    /\ TokenLenDecode

\* V2 Encode refused a message with valid fields and a token of 9 bytes or more
C8_LongTokenRefused ==
    /\ Ran("v2pbuf") /\ Len(msg.Token) > 8 /\ FieldsValid("v2pbuf")
    /\ bufLen > 0
    /\ encRes.err = "ErrInvalidTokenLen"

\* a decoder refused a TKL of 9..15 in a frame that passes its earlier checks
LongTklRefused ==
    \E dec \in TokenCodecs :
        /\ op = "decode" /\ decRes.codec = dec /\ PassesEarlier(dec)
        /\ Tkl(dec) \in 9..15 /\ decRes.err = "ErrInvalidTokenLen"

\* a decoder met a TKL of 1..8 beyond the end of the frame
TklTruncated ==
    \E dec \in TokenCodecs :
        /\ op = "decode" /\ decRes.codec = dec /\ PassesEarlier(dec)
        /\ Tkl(dec) \in 1..8 /\ Tkl(dec) > Len(frame) - HeaderLen(dec)
        /\ decRes.err = "ErrMessageTruncated"

\* offset of the end of the options section in the frame codec wrote for msg
OptionsEnd(codec) ==
    HeaderLen(codec) + Len(msg.Token) + OptionsMarshal(msg.Opts, <<>>, TRUE).n

\* C9: in every frame written by V1 or V2 Encode exactly one 0xFF byte sits
\* between the options section and the payload when the payload is not
\* empty, and none is written when it is empty (frame length = header +
\* token + options); V0 frames have no separator (frame length = 4 +
\* payload length).
C9_Separator ==
    /\ \A codec \in TokenCodecs :
          (Ran(codec) /\ encRes.err = "nil")
          => /\ Len(msg.Payload) > 0
                  => /\ Len(Pristine) = OptionsEnd(codec) + 1 + Len(msg.Payload)
                     /\ Pristine[OptionsEnd(codec) + 1] = 255
             /\ Len(msg.Payload) = 0 => Len(Pristine) = OptionsEnd(codec)
    /\ (Ran("v0") /\ encRes.err = "nil")
          => /\ Len(Pristine) = 4 + Len(msg.Payload)
             /\ Drop(Pristine, 4) = msg.Payload

\* V1 wrote a frame with token, options and the separator before a payload
\* that itself starts with 0xFF
C9_SeparatorWritten ==
    /\ Ran("v1") /\ encRes.err = "nil"
    /\ Len(msg.Token) > 0 /\ msg.Opts # <<>>
    /\ Len(msg.Payload) > 1 /\ msg.Payload[1] = 255
    /\ Pristine[OptionsEnd("v1") + 1] = 255
    /\ encRes.fill # 255

\* a V1 or V2 frame was written for a message without payload
NoSeparatorWritten ==
    /\ Ran("v2pbuf") /\ encRes.err = "nil" /\ msg.Opts # <<>> /\ Len(msg.Payload) = 0

\* V1 frames (code 1, message ID 0, no token) with an option the decoder
\* must skip, and the options it must keep: option 2 is not registered,
\* URIHost (3) needs at least one byte, Observe (6) at most three
UnknownOptionFrames ==
    {[f |-> <<64, 1, 0, 0, 32, 145, 97>>,
      opts |-> <<Option(URIPath, StrValue(<<97>>))>>],
     [f |-> <<64, 1, 0, 0, 33, 7, 145, 97, 255, 104>>,
      opts |-> <<Option(URIPath, StrValue(<<97>>))>>],
     [f |-> <<64, 1, 0, 0, 48, 129, 97>>,
      opts |-> <<Option(URIPath, StrValue(<<97>>))>>],
     [f |-> <<64, 1, 0, 0, 100, 1, 2, 3, 4, 81, 98>>,
      opts |-> <<Option(URIPath, StrValue(<<98>>))>>]}

\* the decoder dec skips the offending option of every such frame
SkipsOffending(dec, frames) ==
    \A x \in frames :
        (op = "decode" /\ decRes.codec = dec /\ frame = x.f)
        => decRes.err = "nil" /\ target.Opts = x.opts

\* C10: decoding a V1 frame that holds an option whose ID is not in the
\* registry, or a registered option whose value length is outside its
\* bounds, succeeds, the offending option is absent from the decoded list
\* and every other option is decoded with its correct absolute ID.
C10_UnknownOptionTolerance ==
    /\ SkipsOffending("v1", UnknownOptionFrames)
    /\ SkipsOffending("legacy", UnknownOptionFrames)

\* what holds: the legacy decoder skips both kinds of option, the V1 codec
\* the registered ones of illegal length
UnknownOptionSkipped ==
    /\ SkipsOffending("legacy", UnknownOptionFrames)
    /\ SkipsOffending("v1", {x \in UnknownOptionFrames : x.f[5] \in {48, 100}})

\* the options of an options section as they stand on the wire: the ID each
\* header gives by its delta and the value bytes; a header that runs over
\* the end of the section reads as the ID -1
RECURSIVE WireOptions(_, _)
WireOptions(b, prev) ==
    LET value(id, n, b3) ==
            IF Len(b3) < n THEN <<[ID |-> -1, b |-> <<>>]>>
            ELSE <<[ID |-> id, b |-> Take(b3, n)]>> \o WireOptions(Drop(b3, n), id)
        length(pd, b2, pl) ==
            IF pl.err # "nil" THEN <<[ID |-> -1, b |-> <<>>]>>
            ELSE value(prev + pd.opt, pl.opt, Drop(b2, pl.processed))
        afterDelta(pd, b2) == length(pd, b2, parseExtOpt(b2, b[1] % 16))
        delta(pd) ==
            IF pd.err # "nil" THEN <<[ID |-> -1, b |-> <<>>]>>
            ELSE afterDelta(pd, Drop(b, 1 + pd.processed))
    IN  IF Len(b) = 0 THEN <<>>
        ELSE IF b[1] = 255 THEN <<>>
        ELSE delta(parseExtOpt(Drop(b, 1), b[1] \div 16))

\* the options of a list as ID and value bytes, in the order of the list
PlainOptions(opts) == [i \in 1..Len(opts) |-> [ID |-> opts[i].ID, b |-> ToBytes(opts[i])]]

\* the options of s that carry the ID id, in the order of s
OfID(s, id) == SelectSeq(s, LAMBDA x : x.ID = id)

\* w lists the options of opts in nondecreasing ID order, those of equal ID
\* in the order they have in opts
StableOrder(opts, w) ==
    /\ Len(w) = Len(opts)
    /\ \A i \in 1..(Len(w) - 1) : w[i].ID <= w[i + 1].ID
    /\ \A i \in 1..Len(opts) :
          OfID(w, opts[i].ID) = OfID(PlainOptions(opts), opts[i].ID)

OptionCodecs == {"v1", "v2", "v2pbuf", "legacy"}

\* C11: for any insertion order of the options of a message, the options
\* section an encoder writes lists the option IDs in nondecreasing order
\* (the first delta is the first ID, no delta is negative) and options of
\* equal ID in their insertion order; URIQuery inserted before URIPath is
\* written after it.
C11_OptionOrder ==
    [][(op = "init" /\ encRes'.codec \in OptionCodecs /\ encRes'.err = "nil")
       => StableOrder(msg.Opts,
                      WireOptions(Drop(Take(bufBack', encRes'.n),
                                       HeaderLen(encRes'.codec) + Len(msg.Token)), 0))]_vars

\* MarshalBinary wrote URIPath "p" before URIQuery "z=1", which was added first
C11_QueryAfterPath ==
    /\ Ran("legacy") /\ Len(msg.Token) = 1
    /\ msg.Opts = <<Option(URIPath, StrValue(<<112>>)),
                    Option(URIQuery, StrValue(<<122, 61, 49>>))>>
    /\ Take(Drop(Pristine, 5), 6) = <<177, 112, 67, 122, 61, 49>>

\* the options of opts other than URIPath
NotPath(opts) == SelectSeq(opts, LAMBDA o : o.ID # URIPath)

\* AddOption(URIPath, l) with a list l of strings appends the elements of l
\* to the path, in list order, and leaves the other options as they are
AddsSegments ==
    \A n \in 0..Len(Segments) :
        LET added(l, m) ==
                /\ Path(m).rv = Path(msg).rv \o l
                /\ Len(m.Opts) = Len(msg.Opts) + Len(l)
                /\ Take(m.Opts, Len(msg.Opts)) = msg.Opts
        IN  added(Take(Segments, n), AddOption(msg, URIPath, StrsValue(Take(Segments, n))))

\* SetPathString(s) makes the path the segments of s behind its leading '/',
\* as SetPath of these segments does, and leaves the other options as they are
SetsPath ==
    \A c \in PathCases :
        LET set(r) ==
                /\ ~r.panic
                /\ Path(r.m) = [panic |-> FALSE, rv |-> c.segs]
                /\ r.m.Opts = NotPath(msg.Opts)
                                \o [i \in 1..Len(c.segs) |-> Option(URIPath, StrValue(c.segs[i]))]
                /\ r.m = SetPath(msg, c.segs)
        IN  set(SetPathString(msg, c.s))

\* the path of the decoded message is the path of the encoded one
PathRoundTrip ==
    (op = "decode" /\ decRes.err = "nil" /\ ~Path(msg).panic)
    => Path(target) = Path(msg)

\* C12: adding the URIPath segments "a","b","c" in that order (AddOption
\* with a list of strings appends one option for each element, in list
\* order), encoding and decoding yields Path() = ["a","b","c"];
\* SetPathString("/a/b/c") yields the same option list, with all leading
\* '/' stripped, and replaces the URIPath options that were present while
\* it leaves the options of other IDs unchanged.
C12_PathOrder ==
    /\ op = "init" => AddsSegments /\ SetsPath
    /\ PathRoundTrip

\* the V1 coder decoded the path a, b, c of a message that has other options
C12_PathDecoded ==
    /\ op = "decode" /\ decRes.codec = "v1" /\ decRes.err = "nil"
    /\ Path(msg).rv = Segments
    /\ Path(target).rv = Segments

\* the Confirmable GET of /a/b and the Acknowledgement of the scenario
GetAB ==
    Message(<<>>, <<Option(URIPath, StrValue(<<97>>)), Option(URIPath, StrValue(<<98>>))>>,
            <<>>, Confirmable, 4660, GET, 0, 0)

EmptyAck == Message(<<>>, <<>>, <<>>, Acknowledgement, 4660, Empty, 0, 0)

\* the V1 coder wrote frm for the message m, and its Decode of frm yields a
\* message with the code and the path of m
Scenario(m, frm) ==
    /\ (Ran("v1") /\ msg = m /\ bufLen >= Len(frm))
         => encRes.n = Len(frm) /\ encRes.err = "nil" /\ Pristine = frm
    /\ (op = "decode" /\ decRes.codec = "v1" /\ frame = frm)
         => /\ decRes.n = Len(frm) /\ decRes.err = "nil"
            /\ target.Code = m.Code /\ target.Type = m.Type
            /\ target.MessageID = 4660 /\ target.TokenNil
            /\ Path(target) = Path(m)

\* C13 as claimed: V1 Encode of a Confirmable GET with URIPath "a","b", MID
\* 0x1234, empty token and no payload produces exactly 41 01 12 34 B1 61 01
\* 62, V1 Decode of those bytes yields a GET with Path ["a","b"]; an
\* Acknowledgement with code Empty, MID 0x1234 and no options encodes to
\* exactly 60 00 12 34.
C13_ScenarioAsClaimed ==
    /\ Scenario(GetAB, <<65, 1, 18, 52, 177, 97, 1, 98>>)
    /\ Scenario(EmptyAck, <<96, 0, 18, 52>>)

\* C13 as amended: the first byte of the GET frame is 40 (version 1, type
\* 0, token length 0); the rest as claimed.
C13_Scenario ==
    /\ Scenario(GetAB, <<64, 1, 18, 52, 177, 97, 1, 98>>)
    /\ Scenario(EmptyAck, <<96, 0, 18, 52>>)

\* the V1 coder decoded the frame it wrote for the GET of /a/b
C13_GetDecoded ==
    /\ op = "decode" /\ decRes.codec = "v1" /\ msg = GetAB
    /\ frame = <<64, 1, 18, 52, 177, 97, 1, 98>>
    /\ target.Code = GET /\ Path(target).rv = Take(Segments, 2)

\* the V1 coder wrote the frame of the Acknowledgement
AckEncoded == Ran("v1") /\ msg = EmptyAck /\ Pristine = <<96, 0, 18, 52>>

\* the big-endian bytes of b without its leading zero bytes
RECURSIVE Minimal(_)
Minimal(b) == IF b # <<>> /\ b[1] = 0 THEN Minimal(Drop(b, 1)) ELSE b

\* the minimal big-endian representation of the uint32 <<hi, lo>>
MinimalBE(v) == Minimal(<<v[1] \div 256, v[1] % 256, v[2] \div 256, v[2] % 256>>)

\* the length the claim gives for the value: 0 for 0, 1 for 1..255, 2 for
\* 256..65535, 3 for 65536..16777215, 4 otherwise
ClaimedLen(v) ==
    IF v = <<0, 0>> THEN 0
    ELSE IF v[1] = 0 /\ v[2] <= 255 THEN 1
    ELSE IF v[1] = 0 THEN 2
    ELSE IF v[1] <= 255 THEN 3
    ELSE 4

\* C14: for every 32-bit value v, EncodeUint32 with a large enough buffer
\* writes the minimal big-endian representation of v (0, 1, 2, 3 or 4 bytes
\* by the range of v) and returns its length; with a shorter buffer it
\* returns (needed length, ErrTooSmall); DecodeUint32 of the written bytes
\* returns (v, number of bytes, nil).
C14_Uint32Encoding ==
    /\ op \in {"encode", "decode", "decodeAll"}
         => /\ Len(MinimalBE(u32.value)) = ClaimedLen(u32.value)
            /\ u32.n = ClaimedLen(u32.value)
            /\ Len(u32.buf) >= u32.n
                 => /\ u32.err = "nil"
                    /\ Take(u32.buf, u32.n) = MinimalBE(u32.value)
                    /\ \A i \in (u32.n + 1)..Len(u32.buf) : u32.buf[i] = u32.fill
            /\ Len(u32.buf) < u32.n
                 => u32.err = "ErrTooSmall" /\ u32.buf = FreshBuf(Len(u32.buf), u32.fill)
    /\ op = "decode"
         => u32.dec = <<[value |-> u32.value, n |-> u32.n, err |-> "nil"]>>

\* the three bytes of 65536 were written into a longer buffer and read back
C14_ThreeBytesDecoded ==
    /\ op = "decode" /\ u32.value = <<1, 0>> /\ Len(u32.buf) = 4
    /\ Take(u32.buf, 3) = <<1, 0, 0>>
    /\ u32.dec = <<[value |-> <<1, 0>>, n |-> 3, err |-> "nil"]>>

\* a value above 2^31 did not fit a buffer of three bytes
Uint32TooSmall ==
    /\ op = "encode" /\ u32.value = <<65535, 65535>> /\ Len(u32.buf) = 3
    /\ u32.n = 4 /\ u32.err = "ErrTooSmall"

\* what ends the walk over the option headers of the section b: "marker" for
\* a header byte other than 0xFF with a nibble of 15, "extension" for a
\* nibble of 13 or 14 without its 1 or 2 extension bytes, "value" for a value
\* that runs over the end, "unknown" for an option that is well formed but
\* not registered, "none" for the end of the section or the 0xFF byte
RECURSIVE OptionsFault(_, _)
OptionsFault(b, prev) ==
    LET value(id, n, b3) ==
            IF Len(b3) < n THEN "value"
            ELSE IF id \notin RegisteredIDs THEN "unknown"
            ELSE OptionsFault(Drop(b3, n), id)
        length(pd, b2, pl) ==
            IF pl.err # "nil" THEN "extension"
            ELSE value(prev + pd.opt, pl.opt, Drop(b2, pl.processed))
        afterDelta(pd, b2) == length(pd, b2, parseExtOpt(b2, b[1] % 16))
        delta(pd) ==
            IF pd.err # "nil" THEN "extension"
            ELSE afterDelta(pd, Drop(b, 1 + pd.processed))
    IN  IF Len(b) = 0 THEN "none"
        ELSE IF b[1] = 255 THEN "none"
        ELSE IF b[1] \div 16 = 15 \/ b[1] % 16 = 15 THEN "marker"
        ELSE delta(parseExtOpt(Drop(b, 1), b[1] \div 16))

\* the token length field as the decoder that ran reads it
TklOf(dec) == IF dec \in V2Codecs THEN (frame[1] \div 4) % 16 ELSE frame[1] % 16

\* the decoder dec ran on a frame whose header and token it accepts
ReachedOptions(dec) ==
    /\ op = "decode" /\ decRes.codec = dec
    /\ Len(frame) >= HeaderLen(dec)
    /\ dec \in V2Codecs => RSUM8(frame) = 0 /\ frame[1] \div 64 = 2
    /\ dec \notin V2Codecs => frame[1] \div 64 = 1
    /\ TklOf(dec) <= 8 /\ Len(frame) >= HeaderLen(dec) + TklOf(dec)

\* the fault of the options section of the frame
FrameFault(dec) == OptionsFault(Drop(frame, HeaderLen(dec) + TklOf(dec)), 0)

\* the decoder dec answers a nibble of 15 with the error marker and a
\* missing extension byte with the error truncated
ReservedNibble(dec, marker, truncated) ==
    ReachedOptions(dec)
    => /\ FrameFault(dec) = "marker" => decRes.n = -1 /\ decRes.err = marker
       /\ FrameFault(dec) = "extension" => decRes.n = -1 /\ decRes.err = truncated

\* C15: while the options section is parsed, an option header byte whose
\* delta or length nibble is 15 makes decoding fail with
\* ErrOptionUnexpectedExtendMarker, except the byte 0xFF, which ends the
\* options section; an extension nibble 13 or 14 with fewer than 1 resp. 2
\* bytes remaining fails with ErrOptionTruncated.
C15_ReservedNibble ==
    \A dec \in OptionCodecs :
        ReservedNibble(dec, "ErrOptionUnexpectedExtendMarker", "ErrOptionTruncated")

\* what holds: the coders answer with the two errors, and
\* Message.UnmarshalBinary with errors of its own; 0xFF ends the section
ReservedNibbleRefused ==
    /\ \A dec \in OptionCodecs \ {"legacy"} :
          ReservedNibble(dec, "ErrOptionUnexpectedExtendMarker", "ErrOptionTruncated")
    /\ ReservedNibble("legacy", "unexpected extended option marker", "truncated")

\* a coder refused a header byte with a nibble of 15
MarkerRefused ==
    /\ ReachedOptions("v1") /\ FrameFault("v1") = "marker"
    /\ decRes.err = "ErrOptionUnexpectedExtendMarker"

\* a decoder took the byte 0xFF for the end of the options
MarkerEndsOptions ==
    /\ ReachedOptions("v1") /\ decRes.err = "nil"
    /\ Len(target.Opts) > 0 /\ Len(target.Payload) > 0

\* the call of Decode of the codec dec returned an error
DecodeFailed(dec) == op = "decode" /\ decRes.codec = dec /\ decRes.err # "nil"

\* the codecs of the coder packages
Coders == {"v0", "v1", "v2", "v2pbuf"}

\* C16: whenever Decode of any codec returns an error, the target message is
\* exactly as it was before the call: no field of it has been written.
C16_NoPartialOutput ==
    \A dec \in Coders : DecodeFailed(dec) => target = NewMessage

\* what holds: a Decode that fails before the CRC16 comparison, or in a
\* codec without one, has written nothing but options
FailureBeforeStores ==
    \A dec \in Coders :
        DecodeFailed(dec) /\ decRes.err # "ErrInvalidRCRC16"
        => target = [NewMessage EXCEPT !.Opts = target.Opts]

\* V0 Decode refused a frame for its CRC16 and left the frame's fields behind
V0StoredBeforeCheck ==
    /\ DecodeFailed("v0") /\ decRes.err = "ErrInvalidRCRC16"
    /\ target.Payload = Drop(frame, 4) /\ target # NewMessage

\* a failed V1 Decode left options of the frame in the message
OptionsLeftBehind == DecodeFailed("v1") /\ Len(target.Opts) > 0

\* the fields of a message that a frame carries
Logical(m) ==
    [version |-> m.Ver, token |-> m.Token, code |-> m.Code, type |-> m.Type,
     mid |-> m.MessageID, eid |-> m.EncoderID, etp |-> m.EncoderType,
     crc16 |-> m.Crc16, options |-> m.Opts, payload |-> m.Payload]

\* the codec dec has decoded the frame into both messages with success
BothDecoded(dec) ==
    op = "both" /\ decRes.codec = dec /\ decRes.err = "nil" /\ second.err = "nil"

\* C17: for each codec, decoding the same frame with success into two
\* messages that start in different states leaves both messages with equal
\* version, token, code, type, message ID, encoder ID, encoder type, Crc16,
\* options and payload.
C17_DecodePure ==
    \A dec \in Coders : BothDecoded(dec) => Logical(target) = Logical(second.m)

\* what holds: the two calls return the same, and the fields that the codec
\* stores are equal in both messages
DecodeStoresEqual ==
    \A dec \in Coders :
        op = "both" /\ decRes.codec = dec
        => /\ decRes.n = second.n /\ decRes.err = second.err
           /\ decRes.err = "nil"
              => /\ target.Payload = second.m.Payload
                 /\ target.Type = second.m.Type
                 /\ dec # "v1" => /\ target.EncoderID = second.m.EncoderID
                                  /\ target.EncoderType = second.m.EncoderType
                                  /\ target.Crc16 = second.m.Crc16
                 /\ dec # "v0" => /\ target.Token = second.m.Token
                                  /\ target.Code = second.m.Code
                                  /\ target.MessageID = second.m.MessageID
                 /\ dec \notin {"v2"} => target.Ver = second.m.Ver

\* V0 Decode into a message that held a V1 frame's fields left them there
V0KeepsEarlierFields ==
    /\ BothDecoded("v0")
    /\ target.MessageID = 4660 /\ second.m.MessageID = -1
    /\ target.Token = <<7>> /\ second.m.Token = <<>>

\* V2 Decode into a message that held a V1 frame left its version at 1
V2KeepsEarlierVersion ==
    BothDecoded("v2") /\ target.Ver = 1 /\ second.m.Ver = 0

\* the envelope has just run Marshal or Unmarshal
Dispatched == env.last \in {"Marshal", "Unmarshal"}

\* the coder of the version ver
CoderOf(ver) ==
    CASE ver = Version0 -> "v0" [] ver = Version1 -> "v1" [] OTHER -> "v2"

\* the versions an envelope of the kind treats as supported
SupportedVersions(kind) ==
    IF kind = "full" THEN {Version0, Version1, Version2} ELSE {Version0, Version1}

\* the envelope s answered as the dispatch rules say
DispatchedRight(s) ==
    /\ s.Message = <<>> => s.err = "ErrMessageNil" /\ s.coder = "none"
    /\ s.Message # <<>> /\ s.Version \notin SupportedVersions(s.kind)
       => s.err = "ErrMessageInvalidVersion" /\ s.coder = "none"
    /\ s.Message # <<>> /\ s.Version \in SupportedVersions(s.kind)
       => s.coder = CoderOf(s.Version)

\* C18: Marshal and Unmarshal of an envelope return ErrMessageNil when its
\* Message is nil and ErrMessageInvalidVersion when its Version is not a
\* supported one; for every supported version they call the message layer
\* with the coder of exactly that version, never with a nil one.
C18_EnvelopeDispatch == Dispatched => DispatchedRight(env)

\* what holds: the rules hold of every envelope but the second copy at
\* version 0, which hands a nil coder to the message layer
DispatchButVersion0 ==
    Dispatched
    => IF env.kind = "v1only" /\ env.Version = Version0 /\ env.Message # <<>>
       THEN env.coder = "nil" /\ env.err = "panic"
       ELSE DispatchedRight(env)

\* the first copy marshalled a message with the V2 coder
MarshalledV2 ==
    /\ env.kind = "full" /\ env.last = "Marshal" /\ env.coder = "v2"
    /\ env.err = "nil" /\ Len(env.out) >= 8

\* an envelope without a message refused to unmarshal
UnmarshalWithoutMessage == env.last = "Unmarshal" /\ env.err = "ErrMessageNil"

\* callers of GetMID are at work
MIDCalled == ids.pc # <<>>

\* the IDs returned so far, caller by caller
ReturnedIDs ==
    {c \in (DOMAIN ids.got) \X (1..MaxMIDCalls) : c[2] <= Len(ids.got[c[1]])}

\* the counter after n increments from its start, modulo 2^32
RECURSIVE CounterAfter(_, _)
CounterAfter(v, n) ==
    IF n = 0 THEN v
    ELSE CounterAfter(IF v[2] = 65535
                      THEN <<IF v[1] = 65535 THEN 0 ELSE v[1] + 1, 0>>
                      ELSE <<v[1], v[2] + 1>>,
                      n - 1)

\* C19: GetMID always returns a value in [0, 65535]; each call increments
\* the shared 32-bit counter exactly once, so that under any interleaving no
\* increment is lost, the IDs returned (65536 calls or fewer) are pairwise
\* distinct, and the IDs of successive calls follow each other modulo
\* 65536 (65535 is followed by 0).
C19_MessageIDCounter ==
    MIDCalled
    => /\ \A c \in ReturnedIDs : ids.got[c[1]][c[2]] \in 0..65535
       /\ ids.msgID = CounterAfter(ids.start, Len(ids.order))
       /\ \A c, d \in ReturnedIDs : c # d => ids.got[c[1]][c[2]] # ids.got[d[1]][d[2]]
       /\ \A i \in 1..Len(ids.order) :
             ids.order[i] = (IF i = 1 THEN ids.start[2] ELSE ids.order[i - 1]) + 1
             \/ /\ (IF i = 1 THEN ids.start[2] ELSE ids.order[i - 1]) = 65535
                /\ ids.order[i] = 0
       /\ \A p \in DOMAIN ids.got :
             \A i \in 1..Len(ids.got[p]) :
                \E k \in 1..Len(ids.order) : ids.order[k] = ids.got[p][i]

\* concurrent callers were returned IDs on both sides of the wrap of the
\* low 16 bits, while the 32-bit counter itself wrapped to 0
C19_WrappedUnderContention ==
    /\ MIDCalled
    /\ ids.start = <<65535, 65534>>
    /\ ids.msgID = <<0, 1>>
    /\ ids.got[1] = <<0>> /\ ids.got[2] = <<65535>>
    /\ ids.pc[1] = "added"

\* Reset was the last call on the pooled message
WasReset == pool.last = "Reset"

\* the fields of the pooled message r that Reset writes are those of a new
\* message
ResetFields(r) ==
    /\ r.msg.Token = <<>> /\ r.msg.TokenNil
    /\ r.msg.Code = Empty
    /\ r.msg.Type = Unset
    /\ r.msg.MessageID = -1
    /\ r.msg.Opts = <<>>
    /\ r.msg.Payload = <<>> /\ r.msg.PayloadNil
    /\ r.body = NilBody
    /\ ~r.isModified
    /\ r.valueBuffer = origValueBuffer
    /\ Len(r.bufferMarshal.back) <= ScratchLimit
    /\ Len(r.bufferUnmarshal.back) <= ScratchLimit

\* C20: after Reset, following any sequence of setters, marshals and
\* unmarshals, every logical field (version, token, code, type, message ID,
\* encoder ID, encoder type, options, payload, body) has the value it has in
\* a message fresh from NewMessage, IsModified is false, the value buffer is
\* the original one, and the marshal and unmarshal buffers have a capacity
\* of at most 1024 bytes.
C20_ResetToEmpty ==
    WasReset
    => /\ ResetFields(pool.r)
       /\ pool.r.msg.Ver = MessageNewMessage.msg.Ver
       /\ pool.r.msg.EncoderID = MessageNewMessage.msg.EncoderID
       /\ pool.r.msg.EncoderType = MessageNewMessage.msg.EncoderType

\* what holds: Reset restores every field of the claim but the version, the
\* encoder ID and the encoder type
ResetButVersionAndEncoder == WasReset => ResetFields(pool.r)

\* Reset left the encoder ID that SetEncoderID had stored
EncoderIDSurvivesReset == WasReset /\ pool.r.msg.EncoderID = 5

\* Reset replaced an unmarshal buffer that had grown over the limit
GrownBufferReplaced ==
    /\ WasReset /\ pool.calls = 2
    /\ pool.r.bufferUnmarshal = Make(ScratchSize)
    /\ pool.r.msg.Ver = Version1

\* the encoder named codec returned a frame for msg
EncodedFrame(codec) == Ran(codec) /\ encRes.err = "nil"

\* the version number of the codec
VersionOf(codec) ==
    CASE codec = "v0" -> 0 [] codec = "v1" -> 1 [] OTHER -> 2

\* what Decode of the codec answers on the frame f
DecodeErr(codec, f) ==
    CASE codec = "v0" -> V0Decode(f, NewMessage).err
      [] codec = "v1" -> V1Decode(f, NewMessage).err
      [] codec = "v2" -> V2Decode(f, NewMessage).err
      [] OTHER -> V2DecodePbuf(f, NewMessage).err

\* the frame f of the codec carries the codec's version in the top two bits
\* of byte 0 and the token length of msg in its TKL field, and Decode does
\* not refuse it for its version, its token length or its length
HeaderSound(codec, f) ==
    /\ Len(f) >= 1
    /\ f[1] \div 64 = VersionOf(codec)
    /\ codec = "v1" => f[1] % 16 = Len(msg.Token)
    /\ codec \in V2Codecs => (f[1] \div 4) % 16 = Len(msg.Token)
    /\ DecodeErr(codec, f) \notin
          {"ErrMessageInvalidVersion", "ErrInvalidTokenLen", "ErrMessageTruncated"}

\* C21: every frame that Encode of a codec returns without error has the
\* codec's version in the top two bits of byte 0 and is not rejected by the
\* codec's Decode for version, token length or truncation, for every type
\* that ValidateType accepts; the type bits never spill into the version
\* or TKL fields.
C21_VersionBits ==
    \A codec \in Coders : EncodedFrame(codec) => HeaderSound(codec, Pristine)

\* what holds: the frames of the four message types 0..3
VersionBitsOfTwoBitTypes ==
    \A codec \in Coders :
        EncodedFrame(codec) /\ msg.Type \in 0..3 => HeaderSound(codec, Pristine)

\* V1 Encode accepted the type 255 and wrote a frame of version 3
TypeSpilledIntoVersion ==
    EncodedFrame("v1") /\ msg.Type = 255 /\ Pristine[1] \div 64 = 3

\* the nibble and the extension that the encoding gives the value v
ExtensionOf(v) ==
    IF v <= 12 THEN <<v, 0>>
    ELSE IF v <= 268 THEN <<13, v - 13>>
    ELSE <<14, v - 269>>

\* the number of extension bytes behind the nibble
ExtensionLen(nibble) == IF nibble = 13 THEN 1 ELSE IF nibble = 14 THEN 2 ELSE 0

\* extendOpt has run on optc.v
Extended == optc.call \in {"extendOpt", "marshalOptionHeaderExt", "parseExtOpt", "parseExtOptAll"}

\* C22: for every v in 0..65804, extendOpt(v) yields a nibble in 0..14: v
\* itself for v <= 12, 13 with extension v - 13 for 13 <= v <= 268, 14 with
\* extension v - 269 for v >= 269; marshalOptionHeaderExt writes 0, 1 or 2
\* big-endian extension bytes accordingly, and parseExtOpt of the nibble and
\* those bytes returns v and the number of extension bytes consumed.
C22_ExtendedEncoding ==
    Extended /\ optc.v \in 0..65804
    => /\ optc.opt \in 0..14
       /\ <<optc.opt, optc.ext>> = ExtensionOf(optc.v)
       /\ optc.call # "extendOpt"
          => /\ optc.n = ExtensionLen(optc.opt)
             /\ optc.err = (IF Len(optc.buf) < optc.n THEN "ErrTooSmall" ELSE "nil")
             /\ optc.err = "nil"
                => /\ optc.n = 1 => optc.buf[1] = optc.ext
                   /\ optc.n = 2 => /\ optc.buf[1] = optc.ext \div 256
                                     /\ optc.buf[2] = optc.ext % 256
                   /\ \A i \in (optc.n + 1)..Len(optc.buf) : optc.buf[i] = optc.fill
       /\ optc.call \in {"parseExtOpt", "parseExtOptAll"} /\ optc.err = "nil"
          => optc.ret = <<[processed |-> optc.n, opt |-> optc.v, err |-> "nil"]>>

\* the largest value of the encoding went through two extension bytes FF FF
C22_LargestValueParsed ==
    /\ optc.call = "parseExtOptAll" /\ optc.v = 65804
    /\ Len(optc.buf) = 3 /\ Take(optc.buf, 2) = <<255, 255>>
    /\ optc.ret[1].opt = 65804 /\ optc.ret[1].processed = 2

\* the first value of the word extension was written as 00 00
WordBoundaryParsed ==
    /\ optc.call = "parseExtOpt" /\ optc.v = 269 /\ optc.opt = 14
    /\ optc.err = "nil" /\ optc.ret[1].opt = 269

\* the bytes of the value of the option o
ValueBytes(o) ==
    IF o.Value.k \in {"string", "bytes"} THEN o.Value.b
    ELSE IF o.Value.n = 0 THEN <<>>
    ELSE IF o.Value.n < 256 THEN <<o.Value.n>>
    ELSE IF o.Value.n < 65536 THEN <<o.Value.n \div 256, o.Value.n % 256>>
    ELSE <<o.Value.n \div 65536, (o.Value.n \div 256) % 256, o.Value.n % 256>>

\* header byte + delta extension + length extension + value
FullEncodingLen(o, previousID) ==
    1 + ExtensionLen(ExtensionOf(o.ID - previousID)[1])
      + ExtensionLen(ExtensionOf(Len(ValueBytes(o)))[1])
      + Len(ValueBytes(o))

\* Option.Marshal has run
OptionMarshalled == optc.call = "Marshal"

\* C23: for every option and previous ID <= its ID, Option.Marshal with a
\* nil buffer or any buffer shorter than the option's full encoding returns
\* (full length, ErrTooSmall), and with a buffer at least that long returns
\* (the same full length, nil) having written exactly that many bytes.
C23_OptionSizeProbe ==
    OptionMarshalled
    => LET full == FullEncodingLen(optc.o, optc.prev)
       IN  /\ optc.n = full
           /\ Len(optc.buf) < full => optc.err = "ErrTooSmall"
           /\ Len(optc.buf) >= full
              => /\ optc.err = "nil"
                 /\ optc.buf[1] = (ExtensionOf(optc.o.ID - optc.prev)[1] * 16)
                                   + ExtensionOf(Len(ValueBytes(optc.o)))[1]
                 /\ Drop(Take(optc.buf, full), full - Len(ValueBytes(optc.o)))
                    = ValueBytes(optc.o)
                 /\ \A i \in (full + 1)..Len(optc.buf) : optc.buf[i] = optc.fill

\* an option with a word delta and a word length was written into a buffer
\* of exactly its 275 bytes
C23_ExactBufferFilled ==
    /\ OptionMarshalled /\ optc.err = "nil"
    /\ optc.o.ID - optc.prev = 269 /\ Len(optc.o.Value.b) = 270
    /\ Len(optc.buf) = 275 /\ optc.n = 275

\* a buffer one byte short was refused with the full length
OneByteShortRefused ==
    /\ OptionMarshalled /\ optc.err = "ErrTooSmall"
    /\ Len(optc.buf) = optc.n - 1 /\ optc.n > 1

\* the big-endian unsigned integer of the bytes b
RECURSIVE BigEndian(_)
BigEndian(b) ==
    IF Len(b) = 0 THEN 0 ELSE (BigEndian(SubSeq(b, 1, Len(b) - 1)) * 256) + b[Len(b)]

\* a Uint-format option was decoded from a value of a length within bounds
UintDecoded(call) ==
    /\ optc.call = call
    /\ optc.o.ID \in UintOptionIDs
    /\ Len(optc.buf) >= CoapOptionDefs(optc.o.ID).MinLen
    /\ Len(optc.buf) <= CoapOptionDefs(optc.o.ID).MaxLen

\* ContentFormat and Accept hold a MediaType, every other Uint option a
\* plain unsigned integer, of the big-endian number of the bytes
TypedValue ==
    /\ optc.o.Value.n = BigEndian(optc.buf)
    /\ optc.o.Value.k = IF optc.o.ID \in {ContentFormat, Accept}
                        THEN "MediaType" ELSE "uint32"

\* C24: decoding the value of a ContentFormat or Accept option with a length
\* within bounds yields a MediaType holding the big-endian unsigned integer
\* of the bytes, every other Uint-format option yields a plain 32-bit
\* unsigned integer, on both decode paths (Option.UnmarshalValue and
\* parseOptionValue).
C24_MediaTypeValue ==
    (UintDecoded("UnmarshalValue") \/ UintDecoded("parseOptionValue")) => TypedValue

\* the claim holds of the path through parseOptionValue
ParsedValueTyped == UintDecoded("parseOptionValue") => TypedValue

\* Option.UnmarshalValue yields the right number for every Uint option
UnmarshalledNumber ==
    UintDecoded("UnmarshalValue")
    => optc.o.Value.n = BigEndian(optc.buf) /\ optc.err = "nil"

\* Option.UnmarshalValue has decoded a ContentFormat into a plain integer
PlainContentFormat ==
    /\ UintDecoded("UnmarshalValue")
    /\ optc.o.ID = ContentFormat /\ optc.buf = <<1, 255>>
    /\ optc.o.Value = UintValue(511)

\* parseOptionValue has decoded an Accept into a MediaType
MediaTypeAccept ==
    /\ UintDecoded("parseOptionValue")
    /\ optc.o.ID = Accept /\ optc.o.Value = MediaValue(255)

\* UnmarshalWithDecoder was the last call
Unmarshalled == pool.last = "UnmarshalWithDecoder"

\* C25: UnmarshalWithDecoder always terminates: every time the decoder
\* reports ErrOptionsTooSmall the capacity of the options vector is strictly
\* increased before the retry, so for any frame and any prior message state,
\* including a message whose options vector has capacity 0, the call returns.
C25_UnmarshalTerminates == Unmarshalled => pool.err # "hang"

\* the capacity decode gives the options vector for the retry
RetryCap(m) == 2 * Len(m.Opts)

\* the call returns from every message whose options vector has a capacity
ReturnsWithCapacity ==
    [][(CallUnmarshalWithDecoder /\ pool.r.msg.OptsCap > 0) => pool'.err # "hang"]_vars

\* the retry of a message with no capacity allocates no capacity
RetryWithoutCapacity ==
    /\ Unmarshalled /\ pool.err = "hang"
    /\ pool.r.msg.OptsCap = 0 /\ RetryCap(pool.r.msg) = 0

\* a full options vector was doubled and the frame decoded
RetryDoubled ==
    /\ Unmarshalled /\ pool.err = "nil"
    /\ pool.r.msg.OptsCap = 2 /\ Len(pool.r.msg.Opts) = 1

\* MarshalWithEncoder was the last call and returned a frame
Marshalled == pool.last = "MarshalWithEncoder" /\ pool.err = "nil"

\* what the encoder makes of the logical message of r in the buffer of a
\* new Message: a new array of zeros
Reference(r, enc) ==
    LET encode(m, size) == EncoderEncode(enc, m, [i \in 1..size |-> 0], size)
        sized(m, size) == encode(m, IF size < ScratchSize THEN ScratchSize ELSE size)
    IN  sized(toMessage(r), EncoderSize(enc, toMessage(r)).n)

\* the frame returned has Size(m) bytes, those that Encode produces
FrameOfMessage ==
    LET same(ref) == /\ ref.err = "nil"
                     /\ Len(pool.out) = ref.n
                     /\ pool.out = Take(ref.back, ref.n)
    IN  same(Reference(pool.r, pool.coder))

\* the call before was a MarshalWithEncoder with the same encoder that
\* returned a frame
MarshalledBefore ==
    /\ pool.last = "MarshalWithEncoder" /\ pool.was.last = "MarshalWithEncoder"
    /\ pool.was.err = "nil" /\ pool.was.coder = pool.coder

\* two consecutive calls with no mutation in between return equal bytes
ConsecutiveEqual == MarshalledBefore => (Marshalled /\ pool.out = pool.was.out)

\* C26: after any sequence of setters, Reset, MarshalWithEncoder and
\* UnmarshalWithDecoder calls on one Message, a successful
\* MarshalWithEncoder(enc) returns exactly enc.Size(m) bytes, equal to what
\* enc.Encode produces for the current logical message with the body as
\* payload; two consecutive calls with no mutation in between return equal
\* bytes.
C26_MarshalHistoryIndependent ==
    /\ Marshalled => FrameOfMessage
    /\ ConsecutiveEqual

\* the claim holds of the V0 and the V1 encoder
HistoryIndependentV0V1 ==
    pool.coder \in {"v0", "v1"}
    => /\ Marshalled => FrameOfMessage
       /\ ConsecutiveEqual

\* the V2 encoder has written a frame that depends on what the marshal
\* buffer held before
V2FrameOfHistory ==
    /\ Marshalled /\ pool.coder = "v2"
    /\ Len(pool.out) = Reference(pool.r, "v2").n
    /\ pool.out # Take(Reference(pool.r, "v2").back, Len(pool.out))

\* the V2 encoder has failed on the buffer its own call before left behind
V2SecondCallFaults ==
    /\ MarshalledBefore /\ pool.coder = "v2" /\ pool.err = "panic"

\* the V1 encoder has returned the same frame twice
V1SecondCallEqual ==
    /\ MarshalledBefore /\ pool.coder = "v1" /\ Marshalled
    /\ pool.out = pool.was.out /\ Len(pool.out) > 20

\* the calls that read the body
BodyReads == {"ReadBody", "ToSecoapCoreMessage", "MarshalWithEncoder"}

\* the last call measured or read the body and returned without error
BodyReadReturned == pool.last \in BodyReads \cup {"BodySize"} /\ pool.err = "nil"

\* ReadBody returns all bytes from offset 0 to the end
ReadBodyReturnsAll ==
    pool.last = "ReadBody"
    => pool.out = (IF pool.r.body.nil THEN <<>> ELSE pool.r.body.b)

\* C27: after BodySize, ReadBody, ToSecoapCoreMessage or MarshalWithEncoder
\* return without error, the body's current offset equals its offset before
\* the call, for every starting offset; ReadBody returns all bytes from
\* offset 0 to the end regardless of the starting offset.
C27_BodyOffsetPreserved ==
    /\ BodyReadReturned => pool.r.body.pos = pool.was.pos
    /\ ReadBodyReturnsAll

\* BodySize restores the offset and returns the length of the body
BodySizeKeepsOffset ==
    pool.last = "BodySize"
    => pool.r.body.pos = pool.was.pos /\ pool.n = Len(pool.r.body.b)

\* the calls that read a body with bytes leave the offset at its end
ReadLeavesOffsetAtEnd ==
    (pool.last \in BodyReads /\ Len(pool.r.body.b) > 0)
    => pool.r.body.pos = Len(pool.r.body.b)

\* ReadBody of a body at offset 0 has returned its nine bytes and left the
\* offset at 9
ReadBodyFromStart ==
    /\ pool.last = "ReadBody" /\ pool.was.pos = 0
    /\ pool.out = ShortBody /\ pool.r.body.pos = 9

\* ReadBody of a body at offset 3 has returned all nine bytes
ReadBodyFromInside ==
    /\ pool.last = "ReadBody" /\ pool.was.pos = 3 /\ pool.out = ShortBody

\* BodySize of a body at offset 3 has returned 9 and left the offset at 3
BodySizeFromInside ==
    /\ pool.last = "BodySize" /\ pool.was.pos = 3
    /\ pool.n = 9 /\ pool.r.body.pos = 3

\* the bytes of the array arr that the slice s covers, up to bound
Region(s, bound) == {<<s.arr, i>> : i \in (s.off + 1)..(s.off + bound)}

\* C28: after any sequence of AddOptionBytes and SetOptionBytes calls between
\* two Resets, including calls that force the value buffer to grow, every
\* option currently in the message still holds exactly the bytes passed when
\* it was added, the stored bytes are a copy (later changes to the caller's
\* slice do not change the option), and the value regions of distinct
\* options do not overlap each other or the unused remainder of the value
\* buffer.
C28_OptionValuesStable ==
    \A i \in 1..Len(pool.Opts) :
        /\ Deref(pool.heap, pool.arg, pool.Opts[i].Value) = pool.Opts[i].given
        /\ pool.Opts[i].Value.arr # 0
        /\ \A j \in 1..Len(pool.Opts) :
              i # j => Region(pool.Opts[i].Value, pool.Opts[i].Value.len)
                       \cap Region(pool.Opts[j].Value, pool.Opts[j].Value.len) = {}
        /\ Region(pool.Opts[i].Value, pool.Opts[i].Value.len)
           \cap Region(pool.valueBuffer, pool.valueBuffer.cap) = {}

\* three options are in the message, one in the original buffer, one in a
\* new array and one in the capacity left behind it, and the caller has
\* written over its last slice
C28_GrownAndExtended ==
    /\ pool.last = "write" /\ Len(pool.Opts) = 3
    /\ \E i, j, k \in 1..3 :
          /\ pool.Opts[i].Value.arr = 1 /\ pool.Opts[i].Value.len = 2
          /\ pool.Opts[j].Value.arr = 2 /\ pool.Opts[j].Value.len = valueBufferSize + 1
          /\ pool.Opts[k].Value.arr = 2 /\ pool.Opts[k].Value.off = valueBufferSize + 1
          /\ pool.Opts[k].Value.len = 2

\* SetOptionBytes has replaced two options by one in a new array
SetAfterGrowth ==
    /\ pool.last = "SetOptionBytes" /\ pool.calls = 3 /\ Len(pool.Opts) = 1
    /\ pool.Opts[1].Value.arr = 2

\* the step is the call name, which leaves a valid field as it is and
\* otherwise sets it to the argument and marks the message modified
UpsertStep(name, Field(_), Valid(_)) ==
    (pool'.last = name /\ pool'.calls = pool.calls + 1)
    => IF Valid(Field(pool.r.msg))
       THEN Field(pool'.r.msg) = Field(pool.r.msg)
       ELSE Field(pool'.r.msg) = pool'.n /\ pool'.r.isModified

VerOf(m) == m.Ver
MessageIDOf(m) == m.MessageID
TypeOf(m) == m.Type
EncoderIDOf(m) == m.EncoderID
EncoderTypeOf(m) == m.EncoderType

\* the claim for the four setters other than UpsertVersion
UpsertOthers ==
    /\ UpsertStep("UpsertMessageID", MessageIDOf, ValidateMID)
    /\ UpsertStep("UpsertType", TypeOf, ValidateType)
    /\ UpsertStep("UpsertEncoderID", EncoderIDOf, ValidateEID)
    /\ UpsertStep("UpsertEncoderType", EncoderTypeOf, ValidateETP)

\* C29: each of UpsertVersion, UpsertMessageID, UpsertType, UpsertEncoderID
\* and UpsertEncoderType leaves the field unchanged when the field's current
\* value is valid (per the matching Validate function) and otherwise sets
\* the field to the argument and marks the message modified.
C29_UpsertSetters ==
    [][UpsertStep("UpsertVersion", VerOf, ValidateVer) /\ UpsertOthers]_vars

\* UpsertMessageID, UpsertType, UpsertEncoderID and UpsertEncoderType do as
\* claimed
UpsertOthersAsClaimed == [][UpsertOthers]_vars

\* UpsertVersion looks at its argument: a valid argument is dropped, an
\* invalid one is stored
UpsertVersionByArgument ==
    [][(pool'.last = "UpsertVersion" /\ pool'.calls = pool.calls + 1)
       => IF ValidateVer(pool'.n) THEN pool'.r = pool.r
          ELSE pool'.r.msg.Ver = pool'.n /\ pool'.r.isModified]_vars

\* UpsertVersion(4) has replaced the valid version 0 of a new message
ValidVersionReplaced ==
    /\ pool.last = "UpsertVersion" /\ pool.calls = 1
    /\ pool.n = 4 /\ pool.r.msg.Ver = 4

\* UpsertVersion(Version1) has left an invalid version in place
InvalidVersionKept ==
    /\ pool.last = "UpsertVersion" /\ pool.n = Version1
    /\ pool.r.msg.Ver = 4

\* UpsertMessageID has set the unset message ID of a new message
UnsetMessageIDUpserted ==
    /\ pool.last = "UpsertMessageID" /\ pool.calls = 1
    /\ pool.r.msg.MessageID = 4660 /\ pool.r.isModified

\* the number of '/' at the head of s
RECURSIVE LeadingSlashes(_)
LeadingSlashes(s) ==
    IF Len(s) = 0 \/ s[1] # 47 THEN 0 ELSE 1 + LeadingSlashes(SubSeq(s, 2, Len(s)))

\* the segments joined by '/'
RECURSIVE JoinSegments(_)
JoinSegments(segs) ==
    IF Len(segs) = 0 THEN <<>>
    ELSE IF Len(segs) = 1 THEN segs[1]
    ELSE segs[1] \o <<47>> \o JoinSegments(SubSeq(segs, 2, Len(segs)))

\* SetPathString was called with a non-empty string
PathStringCalled == optc.call = "SetPathString" /\ Len(optc.buf) > 0

\* the path is that of the string behind its leading '/': segments without
\* a '/' that give the remainder when joined by '/'
PathOfRemainder ==
    /\ optc.err = "nil"
    /\ Len(optc.ret) >= 1
    /\ \A i \in 1..Len(optc.ret) : \A j \in 1..Len(optc.ret[i]) : optc.ret[i][j] # 47
    /\ JoinSegments(optc.ret) = SubSeq(optc.buf, LeadingSlashes(optc.buf) + 1, Len(optc.buf))

\* C30: for every non-empty string s, including strings that consist only
\* of '/' characters, SetPathString returns normally, strips all leading
\* '/' and sets the URIPath options to the '/'-separated segments of the
\* remainder.
C30_SetPathStringNeverFaults == PathStringCalled => PathOfRemainder

\* the claim holds of every string that holds a byte other than '/'
PathOfSegmentString ==
    (PathStringCalled /\ LeadingSlashes(optc.buf) < Len(optc.buf)) => PathOfRemainder

\* SetPathString("//") has faulted
SlashesOnlyFaults ==
    /\ PathStringCalled /\ optc.buf = <<47, 47>> /\ optc.err = "panic"

\* SetPathString("//a/") has set the path "a", ""
SlashesStripped ==
    /\ PathStringCalled /\ optc.buf = <<47, 47, 97, 47>>
    /\ optc.err = "nil" /\ optc.ret = <<<<97>>, <<>>>> /\ optc.n = 3

====
